---- MODULE Spec2Model ----
(***************************************************************************)
(* PIN-to-JWT authentication gate of the Echo backend:                     *)
(*   utils/auth/rate_limiter.py   LoginRateLimiter (sliding window)        *)
(*   utils/auth/settings.py       AuthSettings, get_auth_settings          *)
(*   utils/auth/jwt_handler.py    create_access_token, verify_access_token *)
(*   utils/auth/brain_auth.py     require_brain_auth, optional_brain_auth  *)
(*   routers/brain_auth.py        login                                    *)
(*   routers/brain.py, main.py    the routes under /v1/brain               *)
(*                                                                         *)
(* Spec         the limiter's four methods called from any number of      *)
(*              threads                                                    *)
(* SpecBurst    NumThreads concurrent check_and_increment calls of one    *)
(*              client                                                     *)
(* SpecLogin    POST /v1/auth/login calls of two clients                   *)
(* SpecGate     the auth gate and the brain routes as time passes          *)
(* SpecSettings the auth gate while the environment and the settings      *)
(*              cache change                                               *)
(* SpecToken    create_access_token and verify_access_token                *)
(* SpecRevoke   a token from a login, verified between later logins and   *)
(*              evictions                                                  *)
(* SpecRetry    the limiter with a client that comes back when told       *)
(* SpecGuess    the login calls with the times of the PIN verifications   *)
(* SpecLoad     get_auth_settings over environments that pass and fail    *)
(*              validation                                                 *)
(* SpecCache    concurrent get_auth_settings calls and cache_clear        *)
(* SpecErrors   login, require_brain_auth and verify_access_token while   *)
(*              the environment and the settings cache change             *)
(*                                                                         *)
(* Time is counted in ticks; TicksPerSec ticks make one second, so that    *)
(* time.time() has a fractional part and int() truncates it.               *)
(***************************************************************************)
EXTENDS Integers, Sequences, FiniteSets, TLC

\* ------------------------------------------------------------------------
\* Bounds of the model
\* ------------------------------------------------------------------------
TicksPerSec == 2
MaxClock == 4
NumThreads == 3
MaxLockWait == 1
MaxWindowSeconds == 2
MaxAgeSeconds == 1

\* the values of max_attempts the limiter is configured with
MaxAttemptsValues == {1, 2}

Clients == {"10.0.0.1", "10.0.0.2"}

\* the client whose calls the properties follow; the other one interferes
Observed == "10.0.0.1"

\* the threads of a burst of concurrent callers
Threads == 1..NumThreads

\* the client_id of a call that takes none
NoClient == ""

VARIABLES
    clock,       \* time.time(), in ticks
    config,      \* LoginRateLimiter.config : RateLimitConfig
    attempts,    \* LoginRateLimiter._attempts : client_id -> list of timestamps
    pc,          \* per thread of a burst: where it is in check_and_increment
    loc,         \* per thread of a burst: its locals client_id and now
    result,      \* per thread of a burst: how its check_and_increment ended
    last,        \* the limiter call that completed last, with its pre-state
    prevReset    \* the call completed before it, when that was a reset: its
                 \* client and whether that client was at its limit

VARIABLES
    env,         \* os.environ: the four AUTH_* variables
    cache,       \* the lru_cache of get_auth_settings
    login,       \* the login call that completed last: its inputs, what the
                 \* client's log said before it, the number of timestamps it
                 \* recorded, and its response
    loginLog     \* of the login calls of the client Observed: the status of
                 \* the latest, the times of the run of 401 answers that ends
                 \* with it, and the length of the run of 401 answers before it

VARIABLES
    held,        \* the token a client holds: what create_access_token or a
                 \* login gave it, the settings it was issued under, whether
                 \* a verification has found it expired since, and which
                 \* calls of the login endpoint and the limiter came since
    gate         \* the call of the token codec or of the auth gate that
                 \* completed last: its input, the time, how it ended, and
                 \* the settings cache it left (the settings it ran under)

VARIABLES
    frame,       \* per thread inside get_auth_settings: what its body has read
                 \* and built so far
    loads,       \* of get_auth_settings since the last cache_clear(): how
                 \* often its body built settings and which values its calls
                 \* returned; and the call that completed last
    promise      \* of the client Observed: the earliest time a rejection of
                 \* check_and_increment has told it to come back at, while no
                 \* attempt of it was admitted since

VARIABLES
    verified     \* of the client Observed: the times of its login calls that
                 \* got as far as _verify_pin since its last login answered
                 \* 200, as far as one window reaches back

limiter == <<config, attempts, pc, loc, result, last, prevReset>>
watch == <<frame, loads, promise, verified>>
auth == <<env, cache, login, loginLog, held, gate, frame, loads, promise,
         verified>>
vars == <<clock, config, attempts, pc, loc, result, last, prevReset,
          env, cache, login, loginLog, held, gate, frame, loads, promise,
          verified>>

\* ------------------------------------------------------------------------
\* rate_limiter.py
\* ------------------------------------------------------------------------

\* RateLimitConfig(max_attempts, window_seconds)
RateLimitConfig ==
    [max_attempts : MaxAttemptsValues, window_seconds : 1..MaxWindowSeconds]

\* window_seconds on the tick scale of the clock
WindowTicks(cfg) == cfg.window_seconds * TicksPerSec

\* Python int(): truncation toward zero of n / d
IntTrunc(n, d) == IF n >= 0 THEN n \div d ELSE -((-n) \div d)

\* min(list), max(list) of a non-empty list of timestamps
Min(s) == CHOOSE x \in {s[i] : i \in 1..Len(s)} :
              \A y \in {s[i] : i \in 1..Len(s)} : x <= y
Max(s) == CHOOSE x \in {s[i] : i \in 1..Len(s)} :
              \A y \in {s[i] : i \in 1..Len(s)} : x >= y

\* defaultdict(list) with no key
NoAttempts == [x \in {} |-> <<>>]

\* defaultdict(list).__getitem__: the value read for a key
Get(att, c) == IF c \in DOMAIN att THEN att[c] ELSE <<>>

\* defaultdict(list).__getitem__: a missing key is inserted with []
Touch(att, c) == [x \in DOMAIN att \cup {c} |-> Get(att, x)]

\* self._attempts[client_id] = value
Put(att, c, v) == [x \in DOMAIN att \cup {c} |-> IF x = c THEN v ELSE att[x]]

\* [ts for ts in timestamps if ts > window_start]
InWindow(s, window_start) == SelectSeq(s, LAMBDA ts : ts > window_start)

\* check_and_increment with "len(...) > max_attempts" as its limit test
check_and_increment_gt(att, cfg, c, now) ==
    LET window_start == now - WindowTicks(cfg)
        kept == InWindow(Get(att, c), window_start)
        pruned == Put(att, c, kept)
    IN  IF Len(kept) > cfg.max_attempts
        THEN LET oldest == Min(kept)
                 retry_after ==
                     IntTrunc(oldest + WindowTicks(cfg) - now, TicksPerSec) + 1
             IN  [att |-> pruned, raised |-> TRUE,
                  retry_after_seconds |->
                      IF retry_after > 1 THEN retry_after ELSE 1]
        ELSE [att |-> Put(pruned, c, Append(kept, now)), raised |-> FALSE,
              retry_after_seconds |-> 0]

\* check_and_increment that records the attempt before it tests the limit
check_and_increment_record_first(att, cfg, c, now) ==
    LET window_start == now - WindowTicks(cfg)
        kept == InWindow(Get(att, c), window_start)
        recorded == Put(att, c, Append(kept, now))
    IN  IF Len(kept) >= cfg.max_attempts
        THEN LET oldest == Min(kept)
                 retry_after ==
                     IntTrunc(oldest + WindowTicks(cfg) - now, TicksPerSec) + 1
             IN  [att |-> recorded, raised |-> TRUE,
                  retry_after_seconds |->
                      IF retry_after > 1 THEN retry_after ELSE 1]
        ELSE [att |-> recorded, raised |-> FALSE, retry_after_seconds |-> 0]

\* check_and_increment that tests the limit on the list before pruning it
check_and_increment_unpruned(att, cfg, c, now) ==
    LET window_start == now - WindowTicks(cfg)
        kept == InWindow(Get(att, c), window_start)
        pruned == Put(att, c, kept)
    IN  IF Len(Get(att, c)) >= cfg.max_attempts
        THEN LET oldest == Min(Get(att, c))
                 retry_after ==
                     IntTrunc(oldest + WindowTicks(cfg) - now, TicksPerSec) + 1
             IN  [att |-> pruned, raised |-> TRUE,
                  retry_after_seconds |->
                      IF retry_after > 1 THEN retry_after ELSE 1]
        ELSE [att |-> Put(pruned, c, Append(kept, now)), raised |-> FALSE,
              retry_after_seconds |-> 0]

\* check_and_increment without the "+ 1" of retry_after
check_and_increment_no_plus_one(att, cfg, c, now) ==
    LET window_start == now - WindowTicks(cfg)
        kept == InWindow(Get(att, c), window_start)
        pruned == Put(att, c, kept)
    IN  IF Len(kept) >= cfg.max_attempts
        THEN LET oldest == Min(kept)
                 retry_after ==
                     IntTrunc(oldest + WindowTicks(cfg) - now, TicksPerSec)
             IN  [att |-> pruned, raised |-> TRUE,
                  retry_after_seconds |->
                      IF retry_after > 1 THEN retry_after ELSE 1]
        ELSE [att |-> Put(pruned, c, Append(kept, now)), raised |-> FALSE,
              retry_after_seconds |-> 0]

\* check_and_increment whose rejected call takes the place of the oldest
\* retained attempt
check_and_increment_penalise(att, cfg, c, now) ==
    LET window_start == now - WindowTicks(cfg)
        kept == InWindow(Get(att, c), window_start)
        pruned == Put(att, c, kept)
    IN  IF Len(kept) >= cfg.max_attempts
        THEN LET oldest == Min(kept)
                 retry_after ==
                     IntTrunc(oldest + WindowTicks(cfg) - now, TicksPerSec) + 1
             IN  [att |-> Put(att, c, Append(Tail(kept), now)), raised |-> TRUE,
                  retry_after_seconds |->
                      IF retry_after > 1 THEN retry_after ELSE 1]
        ELSE [att |-> Put(pruned, c, Append(kept, now)), raised |-> FALSE,
              retry_after_seconds |-> 0]

\* check_and_increment that tells every rejected caller to retry after 1 s
check_and_increment_retry_one(att, cfg, c, now) ==
    LET window_start == now - WindowTicks(cfg)
        kept == InWindow(Get(att, c), window_start)
        pruned == Put(att, c, kept)
    IN  IF Len(kept) >= cfg.max_attempts
        THEN [att |-> pruned, raised |-> TRUE, retry_after_seconds |-> 1]
        ELSE [att |-> Put(pruned, c, Append(kept, now)), raised |-> FALSE,
              retry_after_seconds |-> 0]

\* The locked block of check_and_increment: the new _attempts, whether
\* RateLimitExceeded is raised, and its retry_after_seconds.
check_and_increment(att, cfg, c, now) ==
    LET window_start == now - WindowTicks(cfg)
        kept == InWindow(Get(att, c), window_start)
        pruned == Put(att, c, kept)
    IN  IF Len(kept) >= cfg.max_attempts
        THEN LET oldest == Min(kept)
                 retry_after ==
                     IntTrunc(oldest + WindowTicks(cfg) - now, TicksPerSec) + 1
             IN  [att |-> pruned, raised |-> TRUE,
                  retry_after_seconds |->
                      IF retry_after > 1 THEN retry_after ELSE 1]
        ELSE [att |-> Put(pruned, c, Append(kept, now)), raised |-> FALSE,
              retry_after_seconds |-> 0]

\* The locked block of get_remaining_attempts: reading self._attempts[client_id]
\* of the defaultdict inserts a missing key; the list itself is not pruned.
get_remaining_attempts(att, cfg, c, now) ==
    LET window_start == now - WindowTicks(cfg)
        recent_attempts == InWindow(Get(att, c), window_start)
        left == cfg.max_attempts - Len(recent_attempts)
    IN  [att |-> Touch(att, c), ret |-> IF left > 0 THEN left ELSE 0]

\* reset as self._attempts.clear()
reset_all(att, c) == [x \in {} |-> <<>>]

\* reset: self._attempts.pop(client_id, None)
reset(att, c) == [x \in DOMAIN att \ {c} |-> att[x]]

\* cleanup_old_entries that ignores max_age_seconds: every client without
\* an attempt at the time of the call is stale
cleanup_old_entries_any_age(att, now, max_age_seconds) ==
    LET cutoff == now
        stale_keys == {key \in DOMAIN att :
                          att[key] = <<>> \/ Max(att[key]) < cutoff}
    IN  [att |-> [x \in DOMAIN att \ stale_keys |-> att[x]],
         removed |-> Cardinality(stale_keys)]

\* The locked block of cleanup_old_entries, with removed as its return value
cleanup_old_entries(att, now, max_age_seconds) ==
    LET cutoff == now - max_age_seconds * TicksPerSec
        stale_keys == {key \in DOMAIN att :
                          att[key] = <<>> \/ Max(att[key]) < cutoff}
    IN  [att |-> [x \in DOMAIN att \ stale_keys |-> att[x]],
         removed |-> Cardinality(stale_keys)]

\* ------------------------------------------------------------------------
\* settings.py
\*
\* An Optional[str] is a sequence: <<>> is None, <<s>> is the string s.
\* ------------------------------------------------------------------------

None == <<>>
Some(str) == <<str>>

\* Python truthiness of an Optional[str]: None and "" are false
Truthy(opt) == opt # None /\ opt[1] # ""

TEST_PIN == "12345678"
WRONG_PIN == "wrongpin"
Pins == {TEST_PIN, WRONG_PIN}

TEST_JWT_SECRET == "test-jwt-secret-that-is-at-least-32-characters-long"

\* bcrypt.hashpw(pin, salt), for one fixed salt: a digest determined by the pin
hashpw(pin) == "$2b$12$" \o pin

TEST_PIN_HASH == hashpw(TEST_PIN)

\* os.environ.get(name, default)
EnvGet(e, name, default) == IF e[name] = None THEN default ELSE e[name][1]

\* str.lower() on the values AUTH_REQUIRED takes
Lower(str) == CASE str = "TRUE" -> "true"
                [] str = "True" -> "true"
                [] OTHER -> str

\* int(str): [ok, val], ok = FALSE when int() raises ValueError
IntOf(str) == CASE str = "43200" -> [ok |-> TRUE, val |-> 43200]
                [] str = "1" -> [ok |-> TRUE, val |-> 1]
                [] str = "0" -> [ok |-> TRUE, val |-> 0]
                [] OTHER -> [ok |-> FALSE, val |-> 0]

\* str.startswith(prefix)
StartsWith(str, prefix) ==
    Len(str) >= Len(prefix) /\ SubSeq(str, 1, Len(prefix)) = prefix

MinSecretLen == 32

\* validate without the test of the secret's length
validate_any_length(st) ==
    /\ st.auth_required =>
           /\ Truthy(st.jwt_secret)
           /\ Truthy(st.pin_hash)
           /\ \E prefix \in {"$2a$", "$2b$", "$2y$"} :
                  StartsWith(st.pin_hash[1], prefix)
    /\ st.token_ttl_seconds > 0

\* AuthSettings.validate: TRUE when it returns, FALSE when it raises ValueError
validate(st) ==
    /\ st.auth_required =>
           /\ Truthy(st.jwt_secret)
           /\ Truthy(st.pin_hash)
           /\ Len(st.jwt_secret[1]) >= MinSecretLen
           /\ \E prefix \in {"$2a$", "$2b$", "$2y$"} :
                  StartsWith(st.pin_hash[1], prefix)
    /\ st.token_ttl_seconds > 0

NoSettings == [auth_required |-> FALSE, jwt_secret |-> None,
               pin_hash |-> None, token_ttl_seconds |-> 0]

\* The body of get_auth_settings: the settings read from the environment,
\* raised = TRUE when it ends in ValueError
load_auth_settings(e) ==
    LET auth_required_str == Lower(EnvGet(e, "AUTH_REQUIRED", "false"))
        auth_required == auth_required_str \in {"true", "1", "yes"}
        token_ttl == IntOf(EnvGet(e, "AUTH_TOKEN_TTL_SECONDS", "43200"))
        st == [auth_required |-> auth_required,
               jwt_secret |-> e["AUTH_JWT_SECRET"],
               pin_hash |-> e["AUTH_PIN_HASH"],
               token_ttl_seconds |-> token_ttl.val]
    IN  IF ~token_ttl.ok THEN [raised |-> TRUE, settings |-> NoSettings]
        ELSE IF ~validate(st) THEN [raised |-> TRUE, settings |-> NoSettings]
        ELSE [raised |-> FALSE, settings |-> st]

\* @lru_cache(maxsize=1): the cache is <<>> when empty, <<settings>> when
\* filled; a call that raises stores nothing
get_auth_settings(ch, e) ==
    IF ch # <<>>
    THEN [raised |-> FALSE, settings |-> ch[1], cache |-> ch]
    ELSE LET r == load_auth_settings(e)
         IN  [raised |-> r.raised, settings |-> r.settings,
              cache |-> IF r.raised THEN <<>> ELSE <<r.settings>>]

\* the environments the model starts the process in
Envs ==
    [AUTH_REQUIRED : {None, Some("true")},
     AUTH_JWT_SECRET : {None, Some(TEST_JWT_SECRET)},
     AUTH_PIN_HASH : {None, Some(TEST_PIN_HASH)},
     AUTH_TOKEN_TTL_SECONDS : {None}]

\* "auth_settings = get_auth_settings()" runs when the package is imported:
\* the process only starts in an environment for which it does not raise
ImportableEnvs == {e \in Envs : ~load_auth_settings(e).raised}

\* a secret of fewer than 32 characters, a PIN hash that bcrypt did not make
SHORT_SECRET == "a-secret-of-22-chars.."
PLAIN_HASH == "12345678"

\* the environments the loader is run in: every variable unset, set to a
\* value that passes validation, and set to values that do not
LoaderEnvs ==
    [AUTH_REQUIRED : {None, Some("true")},
     AUTH_JWT_SECRET : {None, Some(SHORT_SECRET), Some(TEST_JWT_SECRET)},
     AUTH_PIN_HASH : {None, Some(""), Some(PLAIN_HASH), Some(TEST_PIN_HASH)},
     AUTH_TOKEN_TTL_SECONDS : {None, Some("0"), Some("abc")}]

\* ------------------------------------------------------------------------
\* jwt_handler.py
\* ------------------------------------------------------------------------

Jtis == {"jti-a", "jti-b"}

\* A token string is modelled by what jwt.decode reads from its three
\* segments: the alg of the header ("" when the header does not decode), the
\* claims of the payload segment (a record that holds the claims present) and
\* the signature.  HMAC-SHA256 is taken as unforgeable: a signature is
\* determined by the key and the signed claims and matches no other pair.
HS256(key, payload) == [key |-> key, msg |-> payload]

\* jwt.encode(payload, key, algorithm="HS256")
jwt_encode(payload, key) ==
    [alg |-> "HS256", payload |-> payload, signature |-> HS256(key, payload)]

NoPayload == [sub |-> "", iat |-> 0, exp |-> 0, jti |-> ""]

NoToken == [alg |-> "", payload |-> NoPayload, signature |-> HS256("", NoPayload)]

\* create_access_token that signs the default subject whatever it is given
create_access_token_default_subject(st, subject, ttl_seconds, now, jti) ==
    IF ~Truthy(st.jwt_secret)
    THEN [raised |-> TRUE, token |-> NoToken, expires_at |-> 0]
    ELSE LET ttl == IF ttl_seconds = None
                    THEN st.token_ttl_seconds
                    ELSE ttl_seconds[1]
             exp == now + ttl * TicksPerSec
             payload == [sub |-> "mrw",
                         iat |-> IntTrunc(now, TicksPerSec),
                         exp |-> IntTrunc(exp, TicksPerSec),
                         jti |-> jti]
         IN  [raised |-> FALSE,
              token |-> jwt_encode(payload, st.jwt_secret[1]),
              expires_at |-> exp]

\* create_access_token with "if not ttl_seconds" as the test for the default
create_access_token_falsy_ttl(st, subject, ttl_seconds, now, jti) ==
    IF ~Truthy(st.jwt_secret)
    THEN [raised |-> TRUE, token |-> NoToken, expires_at |-> 0]
    ELSE LET ttl == IF ttl_seconds = None \/ ttl_seconds[1] = 0
                    THEN st.token_ttl_seconds
                    ELSE ttl_seconds[1]
             exp == now + ttl * TicksPerSec
             payload == [sub |-> subject,
                         iat |-> IntTrunc(now, TicksPerSec),
                         exp |-> IntTrunc(exp, TicksPerSec),
                         jti |-> jti]
         IN  [raised |-> FALSE,
              token |-> jwt_encode(payload, st.jwt_secret[1]),
              expires_at |-> exp]

\* create_access_token(subject, ttl_seconds = None) for a ttl_seconds that is
\* None or Some(n): the token signed with the secret, expires_at in ticks,
\* raised = TRUE for the ValueError of a missing secret; iat and exp are whole
\* seconds (int(...timestamp())), expires_at is not
create_access_token(st, subject, ttl_seconds, now, jti) ==
    IF ~Truthy(st.jwt_secret)
    THEN [raised |-> TRUE, token |-> NoToken, expires_at |-> 0]
    ELSE LET ttl == IF ttl_seconds = None
                    THEN st.token_ttl_seconds
                    ELSE ttl_seconds[1]
             exp == now + ttl * TicksPerSec
             payload == [sub |-> subject,
                         iat |-> IntTrunc(now, TicksPerSec),
                         exp |-> IntTrunc(exp, TicksPerSec),
                         jti |-> jti]
         IN  [raised |-> FALSE,
              token |-> jwt_encode(payload, st.jwt_secret[1]),
              expires_at |-> exp]

\* options={"require": [...]} of the jwt.decode call
RequiredClaims == {"sub", "iat", "exp", "jti"}

\* algorithms=[...] of the jwt.decode call
Algorithms == {"HS256"}

\* what jwt.decode hands back: error is "" when it returns the payload
Decoded(error, payload) == [error |-> error, payload |-> payload]

\* jwt.decode that validates exp before it verifies the signature
jwt_decode_exp_first(token, key, now) ==
    IF token.alg = ""
    THEN Decoded("InvalidTokenError", NoPayload)
    ELSE IF token.alg \notin Algorithms
    THEN Decoded("InvalidTokenError", NoPayload)
    ELSE IF "exp" \in DOMAIN token.payload
            /\ token.payload.exp * TicksPerSec <= now
    THEN Decoded("ExpiredSignatureError", NoPayload)
    ELSE IF token.signature # HS256(key, token.payload)
    THEN Decoded("InvalidTokenError", NoPayload)
    ELSE IF ~(RequiredClaims \subseteq DOMAIN token.payload)
    THEN Decoded("InvalidTokenError", NoPayload)
    ELSE IF token.payload.iat * TicksPerSec > now
    THEN Decoded("InvalidTokenError", NoPayload)
    ELSE Decoded("", token.payload)

\* jwt.decode with verify_signature off
jwt_decode_unverified(token, key, now) ==
    IF token.alg = ""
    THEN Decoded("InvalidTokenError", NoPayload)
    ELSE IF token.alg \notin Algorithms
    THEN Decoded("InvalidTokenError", NoPayload)
    ELSE IF ~(RequiredClaims \subseteq DOMAIN token.payload)
    THEN Decoded("InvalidTokenError", NoPayload)
    ELSE IF token.payload.iat * TicksPerSec > now
    THEN Decoded("InvalidTokenError", NoPayload)
    ELSE IF token.payload.exp * TicksPerSec <= now
    THEN Decoded("ExpiredSignatureError", NoPayload)
    ELSE Decoded("", token.payload)

\* jwt.decode(token, key, algorithms=["HS256"], options={require, verify_exp,
\* verify_iat}) at time now: the segments are decoded (DecodeError), the alg
\* is matched against algorithms (InvalidAlgorithmError), the signature is
\* verified (InvalidSignatureError), then the claims are validated: the
\* required ones are present (MissingRequiredClaimError), iat is not in the
\* future (ImmatureSignatureError), exp is not reached (ExpiredSignatureError,
\* raised when exp <= now).  Every error but the last is an InvalidTokenError
\* that is not an ExpiredSignatureError.
jwt_decode(token, key, now) ==
    IF token.alg = ""
    THEN Decoded("InvalidTokenError", NoPayload)
    ELSE IF token.alg \notin Algorithms
    THEN Decoded("InvalidTokenError", NoPayload)
    ELSE IF token.signature # HS256(key, token.payload)
    THEN Decoded("InvalidTokenError", NoPayload)
    ELSE IF ~(RequiredClaims \subseteq DOMAIN token.payload)
    THEN Decoded("InvalidTokenError", NoPayload)
    ELSE IF token.payload.iat * TicksPerSec > now
    THEN Decoded("InvalidTokenError", NoPayload)
    ELSE IF token.payload.exp * TicksPerSec <= now
    THEN Decoded("ExpiredSignatureError", NoPayload)
    ELSE Decoded("", token.payload)

\* what verify_access_token hands back: raised is "" when it returns the
\* JWTPayload, else the name of the exception; cache is the settings cache
\* it leaves
Verified(raised, payload, ch) == [raised |-> raised, payload |-> payload, cache |-> ch]

\* verify_access_token(token) at time now
verify_access_token(ch, e, token, now) ==
    LET gs == get_auth_settings(ch, e)
        st == gs.settings
    IN  IF gs.raised
        THEN Verified("ValueError", NoPayload, gs.cache)
        ELSE IF ~Truthy(st.jwt_secret)
        THEN Verified("JWTInvalidError", NoPayload, gs.cache)
        ELSE LET dec == jwt_decode(token, st.jwt_secret[1], now)
             IN  IF dec.error = "ExpiredSignatureError"
                 THEN Verified("JWTExpiredError", NoPayload, gs.cache)
                 ELSE IF dec.error = "InvalidTokenError"
                 THEN Verified("JWTInvalidError", NoPayload, gs.cache)
                 ELSE Verified("", [sub |-> dec.payload.sub,
                                    iat |-> dec.payload.iat,
                                    exp |-> dec.payload.exp,
                                    jti |-> dec.payload.jti], gs.cache)

\* ------------------------------------------------------------------------
\* routers/brain_auth.py
\* ------------------------------------------------------------------------

\* bcrypt.checkpw succeeds on the hashes bcrypt made and raises on any other
\* string; _verify_pin turns the exception into False
verify_pin(pin, pin_hash) ==
    IF pin_hash \in {hashpw(p) : p \in Pins}
    THEN pin_hash = hashpw(pin)
    ELSE FALSE

\* int(header value) for the Retry-After values that occur
ParseInt(str) ==
    IF \E n \in 0..(MaxWindowSeconds + 1) : ToString(n) = str
    THEN CHOOSE n \in 0..(MaxWindowSeconds + 1) : ToString(n) = str
    ELSE -1

NoHeader == ""

\* what a login call hands back: the HTTP status, the error code, the
\* retry_after of the body, the Retry-After header, the token, and the
\* calls it made in their order, with the limiter state it leaves
Response(status, code, retry, header, token, exp, steps, att, checked, ch) ==
    [status |-> status, code |-> code, retry_after |-> retry,
     header |-> header, token |-> token, expires_at |-> exp,
     steps |-> steps, att |-> att, after_check |-> checked, cache |-> ch]

\* login that verifies the PIN first and asks the limiter only for a wrong one
login_handler_verify_first(att, cfg, ch, e, c, pin, now, jti) ==
    LET rl == check_and_increment(att, cfg, c, now)
        gs == get_auth_settings(ch, e)
        st == gs.settings
        tk == create_access_token(st, "mrw", None, now, jti)
    IN  IF gs.raised
        THEN Response(500, "ValueError", 0, NoHeader, NoToken, 0,
                      <<"get_auth_settings">>, att, att, gs.cache)
        ELSE IF ~Truthy(st.pin_hash)
        THEN Response(503, "auth_not_configured", 0, NoHeader, NoToken, 0,
                      <<"get_auth_settings">>, att, att, gs.cache)
        ELSE IF ~verify_pin(pin, st.pin_hash[1])
        THEN IF rl.raised
             THEN Response(429, "rate_limit", rl.retry_after_seconds,
                           ToString(rl.retry_after_seconds), NoToken, 0,
                           <<"get_auth_settings", "_verify_pin",
                             "check_and_increment">>, rl.att, rl.att, gs.cache)
             ELSE Response(401, "invalid_pin", 0, NoHeader, NoToken, 0,
                           <<"get_auth_settings", "_verify_pin",
                             "check_and_increment">>, rl.att, rl.att, gs.cache)
        ELSE IF tk.raised
        THEN Response(503, "token_error", 0, NoHeader, NoToken, 0,
                      <<"get_auth_settings", "_verify_pin", "reset",
                        "create_access_token">>,
                      reset(att, c), att, gs.cache)
        ELSE Response(200, "", 0, NoHeader, tk.token, tk.expires_at,
                      <<"get_auth_settings", "_verify_pin", "reset",
                        "create_access_token">>,
                      reset(att, c), att, gs.cache)

\* login that also resets the limiter when the PIN is wrong
login_handler_reset_on_failure(att, cfg, ch, e, c, pin, now, jti) ==
    LET rl == check_and_increment(att, cfg, c, now)
        gs == get_auth_settings(ch, e)
        st == gs.settings
        tk == create_access_token(st, "mrw", None, now, jti)
    IN  IF rl.raised
        THEN Response(429, "rate_limit", rl.retry_after_seconds,
                      ToString(rl.retry_after_seconds), NoToken, 0,
                      <<"check_and_increment">>, rl.att, rl.att, ch)
        ELSE IF gs.raised
        THEN Response(500, "ValueError", 0, NoHeader, NoToken, 0,
                      <<"check_and_increment", "get_auth_settings">>,
                      rl.att, rl.att, gs.cache)
        ELSE IF ~Truthy(st.pin_hash)
        THEN Response(503, "auth_not_configured", 0, NoHeader, NoToken, 0,
                      <<"check_and_increment", "get_auth_settings">>,
                      rl.att, rl.att, gs.cache)
        ELSE IF ~verify_pin(pin, st.pin_hash[1])
        THEN Response(401, "invalid_pin", 0, NoHeader, NoToken, 0,
                      <<"check_and_increment", "get_auth_settings",
                        "_verify_pin">>,
                      reset(rl.att, c), rl.att, gs.cache)
        ELSE IF tk.raised
        THEN Response(503, "token_error", 0, NoHeader, NoToken, 0,
                      <<"check_and_increment", "get_auth_settings",
                        "_verify_pin", "reset", "create_access_token">>,
                      reset(rl.att, c), rl.att, gs.cache)
        ELSE Response(200, "", 0, NoHeader, tk.token, tk.expires_at,
                      <<"check_and_increment", "get_auth_settings",
                        "_verify_pin", "reset", "create_access_token">>,
                      reset(rl.att, c), rl.att, gs.cache)

\* login that issues the token without resetting the limiter
login_handler_no_reset(att, cfg, ch, e, c, pin, now, jti) ==
    LET rl == check_and_increment(att, cfg, c, now)
        gs == get_auth_settings(ch, e)
        st == gs.settings
        tk == create_access_token(st, "mrw", None, now, jti)
    IN  IF rl.raised
        THEN Response(429, "rate_limit", rl.retry_after_seconds,
                      ToString(rl.retry_after_seconds), NoToken, 0,
                      <<"check_and_increment">>, rl.att, rl.att, ch)
        ELSE IF gs.raised
        THEN Response(500, "ValueError", 0, NoHeader, NoToken, 0,
                      <<"check_and_increment", "get_auth_settings">>,
                      rl.att, rl.att, gs.cache)
        ELSE IF ~Truthy(st.pin_hash)
        THEN Response(503, "auth_not_configured", 0, NoHeader, NoToken, 0,
                      <<"check_and_increment", "get_auth_settings">>,
                      rl.att, rl.att, gs.cache)
        ELSE IF ~verify_pin(pin, st.pin_hash[1])
        THEN Response(401, "invalid_pin", 0, NoHeader, NoToken, 0,
                      <<"check_and_increment", "get_auth_settings",
                        "_verify_pin">>,
                      rl.att, rl.att, gs.cache)
        ELSE IF tk.raised
        THEN Response(503, "token_error", 0, NoHeader, NoToken, 0,
                      <<"check_and_increment", "get_auth_settings",
                        "_verify_pin", "reset", "create_access_token">>,
                      rl.att, rl.att, gs.cache)
        ELSE Response(200, "", 0, NoHeader, tk.token, tk.expires_at,
                      <<"check_and_increment", "get_auth_settings",
                        "_verify_pin", "reset", "create_access_token">>,
                      rl.att, rl.att, gs.cache)

\* login that treats a missing PIN hash as a PIN that does not match
login_handler_unconfigured_401(att, cfg, ch, e, c, pin, now, jti) ==
    LET rl == check_and_increment(att, cfg, c, now)
        gs == get_auth_settings(ch, e)
        st == gs.settings
        tk == create_access_token(st, "mrw", None, now, jti)
    IN  IF rl.raised
        THEN Response(429, "rate_limit", rl.retry_after_seconds,
                      ToString(rl.retry_after_seconds), NoToken, 0,
                      <<"check_and_increment">>, rl.att, rl.att, ch)
        ELSE IF gs.raised
        THEN Response(500, "ValueError", 0, NoHeader, NoToken, 0,
                      <<"check_and_increment", "get_auth_settings">>,
                      rl.att, rl.att, gs.cache)
        ELSE IF ~Truthy(st.pin_hash) \/ ~verify_pin(pin, st.pin_hash[1])
        THEN Response(401, "invalid_pin", 0, NoHeader, NoToken, 0,
                      <<"check_and_increment", "get_auth_settings",
                        "_verify_pin">>,
                      rl.att, rl.att, gs.cache)
        ELSE IF tk.raised
        THEN Response(503, "token_error", 0, NoHeader, NoToken, 0,
                      <<"check_and_increment", "get_auth_settings",
                        "_verify_pin", "reset", "create_access_token">>,
                      reset(rl.att, c), rl.att, gs.cache)
        ELSE Response(200, "", 0, NoHeader, tk.token, tk.expires_at,
                      <<"check_and_increment", "get_auth_settings",
                        "_verify_pin", "reset", "create_access_token">>,
                      reset(rl.att, c), rl.att, gs.cache)

\* login (lines 96-174), an async handler without await: it runs from its
\* first line to its last with nothing in between
login_handler(att, cfg, ch, e, c, pin, now, jti) ==
    LET rl == check_and_increment(att, cfg, c, now)
        gs == get_auth_settings(ch, e)
        st == gs.settings
        tk == create_access_token(st, "mrw", None, now, jti)
    IN  IF rl.raised
        THEN Response(429, "rate_limit", rl.retry_after_seconds,
                      ToString(rl.retry_after_seconds), NoToken, 0,
                      <<"check_and_increment">>, rl.att, rl.att, ch)
        ELSE IF gs.raised
        THEN Response(500, "ValueError", 0, NoHeader, NoToken, 0,
                      <<"check_and_increment", "get_auth_settings">>,
                      rl.att, rl.att, gs.cache)
        ELSE IF ~Truthy(st.pin_hash)
        THEN Response(503, "auth_not_configured", 0, NoHeader, NoToken, 0,
                      <<"check_and_increment", "get_auth_settings">>,
                      rl.att, rl.att, gs.cache)
        ELSE IF ~verify_pin(pin, st.pin_hash[1])
        THEN Response(401, "invalid_pin", 0, NoHeader, NoToken, 0,
                      <<"check_and_increment", "get_auth_settings",
                        "_verify_pin">>,
                      rl.att, rl.att, gs.cache)
        ELSE IF tk.raised
        THEN Response(503, "token_error", 0, NoHeader, NoToken, 0,
                      <<"check_and_increment", "get_auth_settings",
                        "_verify_pin", "reset", "create_access_token">>,
                      reset(rl.att, c), rl.att, gs.cache)
        ELSE Response(200, "", 0, NoHeader, tk.token, tk.expires_at,
                      <<"check_and_increment", "get_auth_settings",
                        "_verify_pin", "reset", "create_access_token">>,
                      reset(rl.att, c), rl.att, gs.cache)

\* ------------------------------------------------------------------------
\* utils/auth/brain_auth.py
\*
\* credentials is what HTTPBearer(auto_error=False) hands to the dependency:
\* None without a bearer Authorization header, else Some(token).
\* ------------------------------------------------------------------------

\* BrainAuthResult(authenticated, payload = None) for a payload that is None
\* or Some(JWTPayload): subject is payload.sub, None without a payload
BrainAuthResult(authenticated, payload) ==
    [authenticated |-> authenticated, payload |-> payload,
     subject |-> IF payload # None THEN Some(payload[1].sub) ELSE None]

\* the result slot of a call that raised
NoResult == BrainAuthResult(FALSE, None)

\* how a call of a dependency ends: raised is "" when it returns result, else
\* the exception, with the status and error code the client sees (500 for an
\* exception that is not an HTTPException) and the WWW-Authenticate header
Gated(raised, status, code, header, res, ch) ==
    [raised |-> raised, status |-> status, code |-> code, header |-> header,
     result |-> res, cache |-> ch]

\* require_brain_auth that lets a request without token through whatever
\* auth_required says
require_brain_auth_permissive(ch, e, credentials, now) ==
    LET gs == get_auth_settings(ch, e)
        v == verify_access_token(gs.cache, e, credentials[1], now)
    IN  IF gs.raised
        THEN Gated("ValueError", 500, "", NoHeader, NoResult, gs.cache)
        ELSE IF credentials = None
        THEN Gated("", 0, "", NoHeader, BrainAuthResult(FALSE, None), gs.cache)
        ELSE IF v.raised = ""
        THEN Gated("", 0, "", NoHeader,
                   BrainAuthResult(TRUE, Some(v.payload)), v.cache)
        ELSE IF v.raised = "JWTExpiredError"
        THEN Gated("HTTPException", 401, "token_expired", "Bearer",
                   NoResult, v.cache)
        ELSE IF v.raised = "JWTInvalidError"
        THEN Gated("HTTPException", 401, "invalid_token", "Bearer",
                   NoResult, v.cache)
        ELSE Gated("ValueError", 500, "", NoHeader, NoResult, v.cache)

\* require_brain_auth that verifies a presented token only when auth_required
require_brain_auth_verify_when_required(ch, e, credentials, now) ==
    LET gs == get_auth_settings(ch, e)
        v == verify_access_token(gs.cache, e, credentials[1], now)
    IN  IF gs.raised
        THEN Gated("ValueError", 500, "", NoHeader, NoResult, gs.cache)
        ELSE IF credentials = None \/ ~gs.settings.auth_required
        THEN IF gs.settings.auth_required
             THEN Gated("HTTPException", 401, "auth_required", "Bearer",
                        NoResult, gs.cache)
             ELSE Gated("", 0, "", NoHeader,
                        BrainAuthResult(FALSE, None), gs.cache)
        ELSE IF v.raised = ""
        THEN Gated("", 0, "", NoHeader,
                   BrainAuthResult(TRUE, Some(v.payload)), v.cache)
        ELSE IF v.raised = "JWTExpiredError"
        THEN Gated("HTTPException", 401, "token_expired", "Bearer",
                   NoResult, v.cache)
        ELSE IF v.raised = "JWTInvalidError"
        THEN Gated("HTTPException", 401, "invalid_token", "Bearer",
                   NoResult, v.cache)
        ELSE Gated("ValueError", 500, "", NoHeader, NoResult, v.cache)

\* require_brain_auth (lines 59-111), an async dependency without await
require_brain_auth(ch, e, credentials, now) ==
    LET gs == get_auth_settings(ch, e)
        v == verify_access_token(gs.cache, e, credentials[1], now)
    IN  IF gs.raised
        THEN Gated("ValueError", 500, "", NoHeader, NoResult, gs.cache)
        ELSE IF credentials = None
        THEN IF gs.settings.auth_required
             THEN Gated("HTTPException", 401, "auth_required", "Bearer",
                        NoResult, gs.cache)
             ELSE Gated("", 0, "", NoHeader,
                        BrainAuthResult(FALSE, None), gs.cache)
        ELSE IF v.raised = ""
        THEN Gated("", 0, "", NoHeader,
                   BrainAuthResult(TRUE, Some(v.payload)), v.cache)
        ELSE IF v.raised = "JWTExpiredError"
        THEN Gated("HTTPException", 401, "token_expired", "Bearer",
                   NoResult, v.cache)
        ELSE IF v.raised = "JWTInvalidError"
        THEN Gated("HTTPException", 401, "invalid_token", "Bearer",
                   NoResult, v.cache)
        ELSE Gated("ValueError", 500, "", NoHeader, NoResult, v.cache)

\* optional_brain_auth (lines 127-136): the except clause names
\* JWTExpiredError and JWTInvalidError, any other exception leaves the call
optional_brain_auth(ch, e, credentials, now) ==
    LET v == verify_access_token(ch, e, credentials[1], now)
    IN  IF credentials = None
        THEN Gated("", 0, "", NoHeader, BrainAuthResult(FALSE, None), ch)
        ELSE IF v.raised = ""
        THEN Gated("", 0, "", NoHeader,
                   BrainAuthResult(TRUE, Some(v.payload)), v.cache)
        ELSE IF v.raised \in {"JWTExpiredError", "JWTInvalidError"}
        THEN Gated("", 0, "", NoHeader, BrainAuthResult(FALSE, None), v.cache)
        ELSE Gated("ValueError", 500, "", NoHeader, NoResult, v.cache)

\* ------------------------------------------------------------------------
\* routers/brain.py, main.py
\* ------------------------------------------------------------------------

\* POST /chat and POST /chat/stream of the router mounted at /v1/brain
BrainRoutes == {"/v1/brain/chat", "/v1/brain/chat/stream"}

\* The dependencies FastAPI resolves before it calls the handler of a route:
\* those of the route decorator and the handler's parameters (brain.py lines
\* 43-44 and 120-121), of APIRouter() (line 29) and of include_router
\* (main.py line 124).  None of them declares one.
Dependencies == [route \in BrainRoutes |-> {}]

\* how a request to a route ends: the status and error code of the response
\* and whether the handler ran
Served(status, code, handler_ran, ch) ==
    [status |-> status, code |-> code, handler_ran |-> handler_ran, cache |-> ch]

\* A request to a brain route: the dependencies first, an exception of one of
\* them is the response; else the handler (200 from the stub provider)
brain_request(route, ch, e, credentials, now) ==
    LET g == require_brain_auth(ch, e, credentials, now)
    IN  IF "require_brain_auth" \in Dependencies[route] /\ g.raised # ""
        THEN Served(g.status, g.code, FALSE, g.cache)
        ELSE IF "require_brain_auth" \in Dependencies[route]
        THEN Served(200, "", TRUE, g.cache)
        ELSE Served(200, "", TRUE, ch)

\* ------------------------------------------------------------------------
\* State machine of the limiter
\*
\* Every method but reset reads now = time.time() before it takes _lock
\* (lines 58, 86, 113), and any number of threads may be waiting for the lock.
\* The locked block therefore runs with a now that is the clock of some
\* earlier moment, at most MaxLockWait ticks back: one action per method,
\* which is its locked block, with that now as an input.
\* ------------------------------------------------------------------------

NoLocals == [client |-> NoClient, now |-> 0]

NoCall == [op |-> "none", client |-> NoClient, now |-> 0,
           max_age_seconds |-> 0, before |-> NoAttempts, raised |-> FALSE,
           retry_after_seconds |-> 0, ret |-> 0]

NoReset == [client |-> NoClient, limited |-> FALSE]

\* no AUTH_* variable is set
NoEnv == [AUTH_REQUIRED |-> None, AUTH_JWT_SECRET |-> None,
          AUTH_PIN_HASH |-> None, AUTH_TOKEN_TTL_SECONDS |-> None]

NoLog == [status |-> 0, wrong |-> <<>>, wrong_before |-> 0]

\* no token is held
NoHeld == [issued |-> FALSE, token |-> NoToken, expires_at |-> 0, at |-> 0,
           subject |-> "", ttl_seconds |-> None, jti |-> "",
           settings |-> NoSettings, expired |-> FALSE, since |-> {}]

\* no call of the codec or the gate was made
NoGate == [op |-> "none", route |-> "", credentials |-> None, now |-> 0,
           raised |-> "", status |-> 0, code |-> "", header |-> NoHeader,
           result |-> NoResult, payload |-> None, handler_ran |-> FALSE,
           settings |-> <<>>]

NoLogin == [op |-> "none", client |-> NoClient, pin |-> "", now |-> 0,
            prev_status |-> 0, wrong_run |-> 0, prev_wrong_run |-> 0,
            consumed |-> 0, status |-> 0,
            code |-> "", retry_after |-> 0, header |-> NoHeader,
            token |-> NoToken, expires_at |-> 0, steps |-> <<>>]

\* no thread is inside get_auth_settings
NoFrames == [t \in Threads |-> <<>>]

\* no call of get_auth_settings has completed
NoLoad == [op |-> "none", env |-> NoEnv, hit |-> FALSE, raised |-> FALSE,
           settings |-> NoSettings]

\* the loader is not followed
NoLoads == [computed |-> 0, returned |-> {}, last |-> NoLoad]

\* "auth_settings = get_auth_settings()" at import: the body ran once and
\* the call returned what the cache ch holds
Imported(ch) == [computed |-> 1, returned |-> {ch[1]}, last |-> NoLoad]

\* no rejection is pending
NoPromise == [pending |-> FALSE, deadline |-> 0, due |-> FALSE]

\* the client has max_attempts timestamps inside the window that ends now
AtLimit(att, c) ==
    Len(InWindow(Get(att, c), clock - WindowTicks(config))) >= config.max_attempts

\* the values now can have when the lock is acquired
ClockReads == {n \in 0..clock : clock - n <= MaxLockWait}

\* LoginRateLimiter(config=...) : _attempts starts as an empty defaultdict
Init ==
    /\ clock = 0
    /\ config \in RateLimitConfig
    /\ attempts = NoAttempts
    /\ pc = [t \in Threads |-> "idle"]
    /\ loc = [t \in Threads |-> NoLocals]
    /\ result = [t \in Threads |-> "none"]
    /\ last = NoCall
    /\ prevReset = NoReset
    /\ env = NoEnv
    /\ cache = <<load_auth_settings(env).settings>>
    /\ login = NoLogin
    /\ loginLog = NoLog
    /\ held = NoHeld
    /\ gate = NoGate
    /\ frame = NoFrames
    /\ loads = NoLoads
    /\ promise = NoPromise
    /\ verified = <<>>

\* time passes (the clock never goes back)
Tick ==
    /\ clock < MaxClock
    /\ clock' = clock + 1
    /\ UNCHANGED <<config, attempts, pc, loc, result, last, prevReset, auth>>

Completed(r) ==
    /\ last' = r
    /\ prevReset' = IF last.op = "reset"
                    THEN [client |-> last.client,
                          limited |-> AtLimit(last.before, last.client)]
                    ELSE NoReset

CheckAndIncrementCall(c, now) ==
    /\ \E r \in {check_and_increment(attempts, config, c, now)} :
           /\ attempts' = r.att
           /\ Completed([op |-> "check_and_increment", client |-> c,
                         now |-> now, max_age_seconds |-> 0,
                         before |-> attempts, raised |-> r.raised,
                         retry_after_seconds |-> r.retry_after_seconds,
                         ret |-> 0])
    /\ UNCHANGED <<clock, config, pc, loc, result>>

CheckAndIncrement(c, now) ==
    /\ CheckAndIncrementCall(c, now)
    /\ UNCHANGED auth

GetRemainingAttempts(c, now) ==
    /\ \E r \in {get_remaining_attempts(attempts, config, c, now)} :
           /\ attempts' = r.att
           /\ Completed([op |-> "get_remaining_attempts", client |-> c,
                         now |-> now, max_age_seconds |-> 0,
                         before |-> attempts, raised |-> FALSE,
                         retry_after_seconds |-> 0, ret |-> r.ret])
    /\ UNCHANGED <<clock, config, pc, loc, result, auth>>

Reset(c) ==
    /\ attempts' = reset(attempts, c)
    /\ Completed([op |-> "reset", client |-> c, now |-> 0,
                  max_age_seconds |-> 0, before |-> attempts,
                  raised |-> FALSE, retry_after_seconds |-> 0, ret |-> 0])
    /\ UNCHANGED <<clock, config, pc, loc, result, auth>>

CleanupOldEntries(max_age_seconds, now) ==
    /\ \E r \in {cleanup_old_entries(attempts, now, max_age_seconds)} :
           /\ attempts' = r.att
           /\ Completed([op |-> "cleanup_old_entries", client |-> NoClient,
                         now |-> now, max_age_seconds |-> max_age_seconds,
                         before |-> attempts, raised |-> FALSE,
                         retry_after_seconds |-> 0, ret |-> r.removed])
    /\ UNCHANGED <<clock, config, pc, loc, result, auth>>

Next ==
    \/ Tick
    \/ \E c \in Clients, now \in ClockReads : CheckAndIncrement(c, now)
    \/ \E c \in Clients, now \in ClockReads : GetRemainingAttempts(c, now)
    \/ \E c \in Clients : Reset(c)
    \/ \E age \in 0..MaxAgeSeconds, now \in ClockReads :
           CleanupOldEntries(age, now)

Spec == Init /\ [][Next]_vars

\* ------------------------------------------------------------------------
\* A client that retries: the limiter's calls, with what the rejections
\* have told the client Observed about when to come back.
\* ------------------------------------------------------------------------

\* What the client knows after a call that carried the clock value now and
\* was rejected with retry_after_seconds (raised) or admitted: the earliest
\* now + retry_after_seconds of the rejections since its last admitted
\* attempt, and whether this call came at or after what it knew before.
Promised(p, raised, retry_after_seconds, now) ==
    LET due == p.pending /\ now >= p.deadline
        told == now + retry_after_seconds * TicksPerSec
    IN  IF raised
        THEN [pending |-> TRUE,
              deadline |-> IF p.pending /\ p.deadline < told
                           THEN p.deadline ELSE told,
              due |-> due]
        ELSE [pending |-> FALSE,
              deadline |-> IF due THEN p.deadline ELSE 0,
              due |-> due]

CheckAndIncrementRetry(c, now) ==
    /\ CheckAndIncrementCall(c, now)
    /\ promise' = IF c = Observed
                  THEN Promised(promise, last'.raised,
                                last'.retry_after_seconds, now)
                  ELSE [promise EXCEPT !.due = FALSE]
    /\ UNCHANGED <<env, cache, login, loginLog, held, gate, frame, loads,
                   verified>>

NextRetry ==
    \/ Tick
    \/ \E c \in Clients, now \in ClockReads : CheckAndIncrementRetry(c, now)
    \/ Reset(Observed)
    \/ \E age \in 0..MaxAgeSeconds : CleanupOldEntries(age, clock)

SpecRetry == Init /\ [][NextRetry]_vars

\* ------------------------------------------------------------------------
\* A burst: every thread calls check_and_increment once for the same client,
\* all calls inside one window, in any interleaving of the clock reads
\* (line 58) and the locked blocks (lines 61-75).
\* ------------------------------------------------------------------------

BurstClient == Observed

BurstTick ==
    /\ clock + 1 < WindowTicks(config)
    /\ Tick

\* now = time.time(); window_start = now - self.config.window_seconds
BurstEnter(t) ==
    /\ pc[t] = "idle"
    /\ result[t] = "none"
    /\ pc' = [pc EXCEPT ![t] = "lock"]
    /\ loc' = [loc EXCEPT ![t] = [client |-> BurstClient, now |-> clock]]
    /\ UNCHANGED <<clock, config, attempts, result, last, prevReset, auth>>

\* with self._lock: ...
BurstLocked(t) ==
    /\ pc[t] = "lock"
    /\ \E r \in {check_and_increment(attempts, config, loc[t].client, loc[t].now)} :
           /\ attempts' = r.att
           /\ result' = [result EXCEPT ![t] =
                            IF r.raised THEN "RateLimitExceeded" ELSE "ok"]
           /\ Completed([op |-> "check_and_increment",
                         client |-> loc[t].client, now |-> loc[t].now,
                         max_age_seconds |-> 0, before |-> attempts,
                         raised |-> r.raised,
                         retry_after_seconds |-> r.retry_after_seconds,
                         ret |-> 0])
    /\ pc' = [pc EXCEPT ![t] = "idle"]
    /\ loc' = [loc EXCEPT ![t] = NoLocals]
    /\ UNCHANGED <<clock, config, auth>>

NextBurst ==
    \/ BurstTick
    \/ \E t \in Threads : BurstEnter(t)
    \/ \E t \in Threads : BurstLocked(t)

SpecBurst == Init /\ [][NextBurst]_vars

\* ------------------------------------------------------------------------
\* The login endpoint: POST /v1/auth/login calls from the clients, each with
\* the right or a wrong PIN.
\* ------------------------------------------------------------------------

InitLogin ==
    /\ clock = 0
    /\ config \in RateLimitConfig
    /\ attempts = NoAttempts
    /\ pc = [t \in Threads |-> "idle"]
    /\ loc = [t \in Threads |-> NoLocals]
    /\ result = [t \in Threads |-> "none"]
    /\ last = NoCall
    /\ prevReset = NoReset
    /\ env \in ImportableEnvs
    /\ cache = <<load_auth_settings(env).settings>>
    /\ login = NoLogin
    /\ loginLog = NoLog
    /\ held = NoHeld
    /\ gate = NoGate
    /\ frame = NoFrames
    /\ loads = NoLoads
    /\ promise = NoPromise
    /\ verified = <<>>

\* The log of a client after a login call answered with status at time now;
\* of a run of 401 answers it keeps the latest config.max_attempts times
\* that the window ending now still holds.
Logged(log, status, now) ==
    LET run == InWindow(log.wrong, now - WindowTicks(config))
        wrong == IF status = 401 THEN Append(run, now) ELSE <<>>
    IN  [status |-> status,
         wrong |-> IF Len(wrong) > config.max_attempts
                   THEN Tail(wrong) ELSE wrong,
         wrong_before |-> Len(run)]

\* the log of client c, kept for Observed only
LogOf(c) == IF c = Observed THEN loginLog ELSE NoLog

\* uuid.uuid4() is drawn inside create_access_token only: the calls that do
\* not get that far have one outcome, the others one per jti
Outcomes(c, pin) ==
    LET first == login_handler(attempts, config, cache, env, c, pin, clock,
                               CHOOSE j \in Jtis : TRUE)
    IN  IF "create_access_token" \in {first.steps[i] : i \in 1..Len(first.steps)}
        THEN {login_handler(attempts, config, cache, env, c, pin, clock, j) :
                  j \in Jtis}
        ELSE {first}

LoginCall(c, pin) ==
    /\ \E r \in Outcomes(c, pin) :
           /\ attempts' = r.att
           /\ cache' = r.cache
           /\ login' = [op |-> "login", client |-> c, pin |-> pin,
                        now |-> clock,
                        prev_status |-> LogOf(c).status,
                        wrong_run |-> Len(InWindow(LogOf(c).wrong,
                                          clock - WindowTicks(config))),
                        prev_wrong_run |-> LogOf(c).wrong_before,
                        consumed |-> Len(Get(r.after_check, c))
                                     - Len(InWindow(Get(attempts, c),
                                               clock - WindowTicks(config))),
                        status |-> r.status, code |-> r.code,
                        retry_after |-> r.retry_after, header |-> r.header,
                        token |-> r.token, expires_at |-> r.expires_at,
                        steps |-> r.steps]
           /\ loginLog' = IF c = Observed
                          THEN Logged(loginLog, r.status, clock)
                          ELSE loginLog
    /\ UNCHANGED <<clock, config, pc, loc, result, last, prevReset, env,
                   held, gate>>

Login(c, pin) ==
    /\ LoginCall(c, pin)
    /\ UNCHANGED watch

NextLogin ==
    \/ Tick
    \/ \E c \in Clients, pin \in Pins : Login(c, pin)

SpecLogin == InitLogin /\ [][NextLogin]_vars

\* ------------------------------------------------------------------------
\* The login endpoint under a guessing client: the same calls, with the
\* times at which PINs of the client Observed were verified kept.
\* ------------------------------------------------------------------------

\* The verification times of a client after a login call at time now that
\* was answered with status and did (checked) or did not get as far as
\* _verify_pin: the times later than now - window_seconds since the last
\* 200, of which the latest config.max_attempts + 1 are kept.
VerifiedTimes(seen, status, checked, now) ==
    LET recent == InWindow(seen, now - WindowTicks(config))
        times == IF status = 200 THEN <<>>
                 ELSE IF checked THEN Append(recent, now) ELSE recent
    IN  IF Len(times) > config.max_attempts + 1 THEN Tail(times) ELSE times

LoginGuess(c, pin) ==
    /\ LoginCall(c, pin)
    /\ verified' = IF c = Observed
                   THEN VerifiedTimes(verified, login'.status,
                                      \E i \in 1..Len(login'.steps) :
                                          login'.steps[i] = "_verify_pin",
                                      clock)
                   ELSE verified
    /\ UNCHANGED <<frame, loads, promise>>

NextGuess ==
    \/ Tick
    \/ \E c \in Clients, pin \in Pins : LoginGuess(c, pin)

SpecGuess == InitLogin /\ [][NextGuess]_vars

\* ------------------------------------------------------------------------
\* The auth gate: a client obtains a token from create_access_token and
\* presents it, a forgery of it or nothing to require_brain_auth, to
\* optional_brain_auth and to the brain routes, while the environment is
\* changed and the settings cache is cleared (monkeypatch.setenv and
\* get_auth_settings.cache_clear() of the tests' fixtures).
\* ------------------------------------------------------------------------

\* the signature segment altered: the MAC of no key
TamperSignature(token) ==
    [token EXCEPT !.signature = HS256("", token.payload)]

\* the claims segment altered (a later exp), the signature segment kept
TamperClaims(token) ==
    [token EXCEPT !.payload = [@ EXCEPT !.exp = @ + 1]]

\* "invalid.token.here": three segments, the first is not a JOSE header
MalformedToken ==
    [alg |-> "", payload |-> NoPayload, signature |-> HS256("here", NoPayload)]

\* the claims of the tokens made outside the service
ForgedClaims == [sub |-> "mrw", iat |-> 0, exp |-> 43200, jti |-> "jti-a"]

\* an unsigned token whose header says alg = none
AlgNoneToken ==
    [alg |-> "none", payload |-> ForgedClaims, signature |-> HS256("", ForgedClaims)]

\* a token signed with a key that is not the service's
ForeignToken ==
    jwt_encode(ForgedClaims, "a-key-of-32-characters-not-the-service-s-own")

\* a token signed with the service's secret that carries no jti
MissingClaimToken ==
    jwt_encode([sub |-> "mrw", iat |-> 0, exp |-> 43200], TEST_JWT_SECRET)

\* the tokens a client can present
Presentable ==
    {MalformedToken, AlgNoneToken, ForeignToken, MissingClaimToken}
        \cup (IF held.issued
              THEN {held.token, TamperSignature(held.token),
                    TamperClaims(held.token)}
              ELSE {})

\* the values of the credentials parameter
Credentials == {None} \cup {Some(t) : t \in Presentable}

\* the explicit ttl_seconds arguments of create_access_token
TtlArguments == {None, Some(0), Some(1)}

Subjects == {"mrw", "test-user"}

InitGate ==
    /\ clock = 0
    /\ config \in {c \in RateLimitConfig : c.max_attempts = 1 /\ c.window_seconds = 1}
    /\ attempts = NoAttempts
    /\ pc = [t \in Threads |-> "idle"]
    /\ loc = [t \in Threads |-> NoLocals]
    /\ result = [t \in Threads |-> "none"]
    /\ last = NoCall
    /\ prevReset = NoReset
    /\ env \in ImportableEnvs
    /\ cache = <<load_auth_settings(env).settings>>
    /\ login = NoLogin
    /\ loginLog = NoLog
    /\ held = NoHeld
    /\ gate = NoGate
    /\ frame = NoFrames
    /\ loads = NoLoads
    /\ promise = NoPromise
    /\ verified = <<>>

\* os.environ is changed (monkeypatch.setenv, monkeypatch.delenv)
SetEnv(e) ==
    /\ e # env
    /\ env' = e
    /\ UNCHANGED <<clock, limiter, cache, login, loginLog, held, gate, watch>>

\* get_auth_settings.cache_clear()
CacheClear ==
    /\ cache # <<>>
    /\ cache' = <<>>
    /\ UNCHANGED <<clock, limiter, env, login, loginLog, held, gate, watch>>

\* the record of a call of the codec
CodecCall(op, credentials, raised, payload, ch) ==
    [op |-> op, route |-> "", credentials |-> credentials, now |-> clock,
     raised |-> raised, status |-> 0, code |-> "", header |-> NoHeader,
     result |-> NoResult, payload |-> payload, handler_ran |-> FALSE,
     settings |-> ch]

\* the record of a call of a dependency that ended as g
GateCall(op, credentials, g) ==
    [op |-> op, route |-> "", credentials |-> credentials, now |-> clock,
     raised |-> g.raised, status |-> g.status, code |-> g.code,
     header |-> g.header, result |-> g.result, payload |-> None,
     handler_ran |-> FALSE, settings |-> g.cache]

\* the held token after a call that presented credentials: expired says
\* whether the call found the token expired
HeldAfter(credentials, expired) ==
    IF held.issued /\ credentials = Some(held.token) /\ expired
    THEN [held EXCEPT !.expired = TRUE]
    ELSE held

\* token, expires_at = create_access_token(subject, ttl_seconds); the client
\* keeps the token
CreateAccessToken(subject, ttl_seconds) ==
    /\ ~held.issued
    /\ \E gs \in {get_auth_settings(cache, env)} :
           /\ cache' = gs.cache
           /\ \E jti \in IF gs.raised \/ ~Truthy(gs.settings.jwt_secret)
                          THEN {""} ELSE Jtis :
              \E tk \in {create_access_token(gs.settings, subject,
                                              ttl_seconds, clock, jti)} :
                  IF gs.raised \/ tk.raised
                  THEN /\ gate' = CodecCall("create_access_token", None,
                                            "ValueError", None, gs.cache)
                       /\ held' = held
                  ELSE /\ gate' = CodecCall("create_access_token", None, "",
                                            Some(tk.token.payload), gs.cache)
                       /\ held' = [issued |-> TRUE, token |-> tk.token,
                                   expires_at |-> tk.expires_at,
                                   at |-> clock, subject |-> subject,
                                   ttl_seconds |-> ttl_seconds,
                                   jti |-> jti, settings |-> gs.settings,
                                   expired |-> FALSE, since |-> {}]
    /\ UNCHANGED <<clock, limiter, env, login, loginLog, watch>>

\* verify_access_token(token)
VerifyAccessToken(token) ==
    /\ \E v \in {verify_access_token(cache, env, token, clock)} :
           /\ cache' = v.cache
           /\ gate' = CodecCall("verify_access_token", Some(token), v.raised,
                                IF v.raised = "" THEN Some(v.payload) ELSE None,
                                v.cache)
           /\ held' = HeldAfter(Some(token), v.raised = "JWTExpiredError")
    /\ UNCHANGED <<clock, limiter, env, login, loginLog, watch>>

RequireBrainAuth(credentials) ==
    /\ \E g \in {require_brain_auth(cache, env, credentials, clock)} :
           /\ cache' = g.cache
           /\ gate' = GateCall("require_brain_auth", credentials, g)
           /\ held' = HeldAfter(credentials, g.code = "token_expired")
    /\ UNCHANGED <<clock, limiter, env, login, loginLog, watch>>

OptionalBrainAuth(credentials) ==
    /\ \E g \in {optional_brain_auth(cache, env, credentials, clock)} :
           /\ cache' = g.cache
           /\ gate' = GateCall("optional_brain_auth", credentials, g)
    /\ UNCHANGED <<clock, limiter, env, login, loginLog, held, watch>>

\* POST route with the credentials of its Authorization header
BrainRequest(route, credentials) ==
    /\ \E r \in {brain_request(route, cache, env, credentials, clock)} :
           /\ cache' = r.cache
           /\ gate' = [op |-> "brain_request", route |-> route,
                       credentials |-> credentials, now |-> clock,
                       raised |-> IF r.handler_ran THEN "" ELSE "HTTPException",
                       status |-> r.status, code |-> r.code,
                       header |-> NoHeader, result |-> NoResult,
                       payload |-> None, handler_ran |-> r.handler_ran,
                       settings |-> r.cache]
    /\ UNCHANGED <<clock, limiter, env, login, loginLog, held, watch>>

NextGate ==
    \/ Tick
    \/ \E ttl \in {None, Some(0)} : CreateAccessToken("mrw", ttl)
    \/ \E credentials \in Credentials : RequireBrainAuth(credentials)
    \/ \E credentials \in Credentials : OptionalBrainAuth(credentials)
    \/ \E route \in BrainRoutes, credentials \in Credentials :
           BrainRequest(route, credentials)

SpecGate == InitGate /\ [][NextGate]_vars

\* ------------------------------------------------------------------------
\* The gate while the settings change: the environment is changed and the
\* cache is cleared between the calls, at one moment of time.
\* ------------------------------------------------------------------------

NextSettings ==
    \/ \E e \in Envs : SetEnv(e)
    \/ CacheClear
    \/ \E ttl \in {None, Some(0)} : CreateAccessToken("mrw", ttl)
    \/ \E credentials \in Credentials : RequireBrainAuth(credentials)
    \/ \E credentials \in Credentials : OptionalBrainAuth(credentials)

SpecSettings == InitGate /\ [][NextSettings]_vars

\* ------------------------------------------------------------------------
\* The token codec: create_access_token for a subject and a ttl_seconds, then
\* verify_access_token of the token, of an altered copy or of a forgery, as
\* time passes; the settings stay as loaded.
\* ------------------------------------------------------------------------

\* the environments of the codec: with and without secret, with the default
\* lifetime and with a lifetime of one second
TokenEnvs ==
    {e \in [AUTH_REQUIRED : {None, Some("true")},
            AUTH_JWT_SECRET : {None, Some(TEST_JWT_SECRET)},
            AUTH_PIN_HASH : {Some(TEST_PIN_HASH)},
            AUTH_TOKEN_TTL_SECONDS : {None, Some("1")}] :
        ~load_auth_settings(e).raised}

InitToken ==
    /\ clock = 0
    /\ config \in {c \in RateLimitConfig : c.max_attempts = 1 /\ c.window_seconds = 1}
    /\ attempts = NoAttempts
    /\ pc = [t \in Threads |-> "idle"]
    /\ loc = [t \in Threads |-> NoLocals]
    /\ result = [t \in Threads |-> "none"]
    /\ last = NoCall
    /\ prevReset = NoReset
    /\ env \in TokenEnvs
    /\ cache = <<load_auth_settings(env).settings>>
    /\ login = NoLogin
    /\ loginLog = NoLog
    /\ held = NoHeld
    /\ gate = NoGate
    /\ frame = NoFrames
    /\ loads = NoLoads
    /\ promise = NoPromise
    /\ verified = <<>>

NextToken ==
    \/ Tick
    \/ \E subject \in Subjects, ttl \in TtlArguments :
           CreateAccessToken(subject, ttl)
    \/ \E token \in Presentable : VerifyAccessToken(token)

SpecToken == InitToken /\ [][NextToken]_vars

\* ------------------------------------------------------------------------
\* A token from a login, kept by the client and verified now and then while
\* both clients go on calling the login endpoint and stale limiter entries
\* are evicted; the settings stay as loaded.
\* ------------------------------------------------------------------------

\* the environments in which a login can succeed: secret and PIN hash set,
\* the default lifetime or a lifetime of one second
LoginEnvs ==
    {e \in [AUTH_REQUIRED : {Some("true")},
            AUTH_JWT_SECRET : {Some(TEST_JWT_SECRET)},
            AUTH_PIN_HASH : {Some(TEST_PIN_HASH)},
            AUTH_TOKEN_TTL_SECONDS : {None, Some("1")}] :
        ~load_auth_settings(e).raised}

InitRevoke ==
    /\ clock = 0
    /\ config \in {c \in RateLimitConfig : c.max_attempts = 1}
    /\ attempts = NoAttempts
    /\ pc = [t \in Threads |-> "idle"]
    /\ loc = [t \in Threads |-> NoLocals]
    /\ result = [t \in Threads |-> "none"]
    /\ last = NoCall
    /\ prevReset = NoReset
    /\ env \in LoginEnvs
    /\ cache = <<load_auth_settings(env).settings>>
    /\ login = NoLogin
    /\ loginLog = NoLog
    /\ held = NoHeld
    /\ gate = NoGate
    /\ frame = NoFrames
    /\ loads = NoLoads
    /\ promise = NoPromise
    /\ verified = <<>>

\* POST /v1/auth/login; the client keeps the token of the first 200 answer.
\* held.since collects what happens after that token was issued: a login
\* answered 200 ("reset", it clears the client's counter), one answered 401
\* ("invalid_pin"), one answered 429 ("rate_limit") and an eviction
\* ("cleanup_old_entries").
LoginAndKeep(c, pin) ==
    /\ \E r \in Outcomes(c, pin) :
           /\ attempts' = r.att
           /\ cache' = r.cache
           /\ held' = IF ~held.issued
                      THEN IF r.status = 200
                           THEN [issued |-> TRUE, token |-> r.token,
                                 expires_at |-> r.expires_at, at |-> clock,
                                 subject |-> "mrw", ttl_seconds |-> None,
                                 jti |-> r.token.payload.jti,
                                 settings |-> r.cache[1], expired |-> FALSE,
                                 since |-> {}]
                           ELSE held
                      ELSE [held EXCEPT !.since = @ \cup
                               (CASE r.status = 200 -> {"reset"}
                                  [] r.status = 401 -> {"invalid_pin"}
                                  [] r.status = 429 -> {"rate_limit"}
                                  [] OTHER -> {})]
    /\ UNCHANGED <<clock, config, pc, loc, result, last, prevReset, env,
                   login, loginLog, gate, watch>>

\* cleanup_old_entries(max_age_seconds) called by a scheduler
Evict(max_age_seconds) ==
    /\ \E r \in {cleanup_old_entries(attempts, clock, max_age_seconds)} :
           /\ r.removed > 0
           /\ attempts' = r.att
           /\ held' = IF held.issued
                      THEN [held EXCEPT !.since = @ \cup {"cleanup_old_entries"}]
                      ELSE held
    /\ UNCHANGED <<clock, config, pc, loc, result, last, prevReset, env,
                   cache, login, loginLog, gate, watch>>

\* verify_access_token(token) of the token the client keeps
VerifyHeld ==
    /\ held.issued
    /\ VerifyAccessToken(held.token)

NextRevoke ==
    \/ Tick
    \/ \E c \in Clients, pin \in Pins : LoginAndKeep(c, pin)
    \/ \E age \in 0..MaxAgeSeconds : Evict(age)
    \/ VerifyHeld

SpecRevoke == InitRevoke /\ [][NextRevoke]_vars

\* ------------------------------------------------------------------------
\* The settings loader on its own: get_auth_settings is called, one variable
\* of the environment is set or deleted (monkeypatch.setenv, delenv), and the
\* cache is cleared, one after the other.
\* ------------------------------------------------------------------------

InitLoad ==
    /\ clock = 0
    /\ config \in {c \in RateLimitConfig : c.max_attempts = 1 /\ c.window_seconds = 1}
    /\ attempts = NoAttempts
    /\ pc = [t \in Threads |-> "idle"]
    /\ loc = [t \in Threads |-> NoLocals]
    /\ result = [t \in Threads |-> "none"]
    /\ last = NoCall
    /\ prevReset = NoReset
    /\ env \in {e \in LoaderEnvs : ~load_auth_settings(e).raised}
    /\ cache = <<load_auth_settings(env).settings>>
    /\ login = NoLogin
    /\ loginLog = NoLog
    /\ held = NoHeld
    /\ gate = NoGate
    /\ frame = NoFrames
    /\ loads = NoLoads
    /\ promise = NoPromise
    /\ verified = <<>>

\* the environments that differ from e in one variable
OneVariableSet(e) ==
    {x \in LoaderEnvs : Cardinality({name \in DOMAIN e : x[name] # e[name]}) = 1}

\* settings = get_auth_settings(); loads.last keeps the environment the body
\* read, or none for a call answered from the cache
GetAuthSettings ==
    /\ \E gs \in {get_auth_settings(cache, env)} :
           /\ cache' = gs.cache
           /\ loads' = [loads EXCEPT !.last =
                            [op |-> "get_auth_settings",
                             env |-> IF cache = <<>> THEN env ELSE NoEnv,
                             hit |-> cache # <<>>,
                             raised |-> gs.raised,
                             settings |-> gs.settings]]
    /\ UNCHANGED <<clock, limiter, env, login, loginLog, held, gate, frame,
                   promise, verified>>

NextLoad ==
    \/ \E e \in OneVariableSet(env) : SetEnv(e)
    \/ CacheClear
    \/ GetAuthSettings

SpecLoad == InitLoad /\ [][NextLoad]_vars

\* ------------------------------------------------------------------------
\* get_auth_settings called from concurrent threads.  functools.lru_cache
\* looks the key up; on a miss it calls the function with no lock held and,
\* when the function has returned, stores the result unless the key has
\* been stored in the meantime, and returns the result of its own call.  A
\* call is two steps here: the lookup, with the reading of os.environ when it
\* misses, and the return from the body, with the store.
\* ------------------------------------------------------------------------

\* the threads that call get_auth_settings
Callers == {t \in Threads : t <= 2}

\* the environments of the concurrent callers: the PIN hash is set;
\* AUTH_REQUIRED=true without secret is the one the loader refuses
CacheEnvs == {e \in Envs : e.AUTH_PIN_HASH # None}

InitCache ==
    /\ clock = 0
    /\ config \in {c \in RateLimitConfig : c.max_attempts = 1 /\ c.window_seconds = 1}
    /\ attempts = NoAttempts
    /\ pc = [t \in Threads |-> "idle"]
    /\ loc = [t \in Threads |-> NoLocals]
    /\ result = [t \in Threads |-> "none"]
    /\ last = NoCall
    /\ prevReset = NoReset
    /\ env \in {e \in CacheEnvs : ~load_auth_settings(e).raised}
    /\ cache = <<load_auth_settings(env).settings>>
    /\ login = NoLogin
    /\ loginLog = NoLog
    /\ held = NoHeld
    /\ gate = NoGate
    /\ frame = NoFrames
    /\ loads = Imported(cache)
    /\ promise = NoPromise
    /\ verified = <<>>

\* Thread t calls get_auth_settings().  A hit returns the cached value.  On a
\* miss the body starts and reads the environment: frame[t] holds what it
\* will return or raise, and whether cache_clear() was called since.
LoaderEnter(t) ==
    /\ frame[t] = <<>>
    /\ IF cache # <<>>
       THEN /\ loads' = [loads EXCEPT
                            !.returned = @ \cup {cache[1]},
                            !.last = [op |-> "get_auth_settings",
                                      env |-> NoEnv, hit |-> TRUE,
                                      raised |-> FALSE, settings |-> cache[1]]]
            /\ frame' = frame
       ELSE \E r \in {load_auth_settings(env)} :
                /\ frame' = [frame EXCEPT ![t] =
                                <<[env |-> env, raised |-> r.raised,
                                   settings |-> r.settings, spans |-> FALSE]>>]
                /\ loads' = [loads EXCEPT !.computed =
                                 IF r.raised THEN @ ELSE @ + 1]
    /\ UNCHANGED <<clock, limiter, env, cache, login, loginLog, held, gate,
                   promise, verified>>

\* The body of thread t's call raises or returns; a returned value is stored
\* when the cache holds none
LoaderReturn(t) ==
    /\ frame[t] # <<>>
    /\ \E f \in {frame[t][1]} :
           /\ cache' = IF f.raised \/ cache # <<>> THEN cache
                        ELSE <<f.settings>>
           /\ loads' = [loads EXCEPT
                           !.returned = IF f.raised \/ f.spans THEN @
                                        ELSE @ \cup {f.settings},
                           !.last = [op |-> "get_auth_settings",
                                     env |-> f.env, hit |-> FALSE,
                                     raised |-> f.raised,
                                     settings |-> f.settings]]
    /\ frame' = [frame EXCEPT ![t] = <<>>]
    /\ UNCHANGED <<clock, limiter, env, login, loginLog, held, gate, promise,
                   verified>>

\* get_auth_settings.cache_clear() while threads may be inside the body
LoaderCacheClear ==
    /\ cache # <<>> \/ loads.computed # 0
    /\ cache' = <<>>
    /\ frame' = [t \in Threads |->
                     IF frame[t] = <<>> THEN <<>>
                     ELSE <<[frame[t][1] EXCEPT !.spans = TRUE]>>]
    /\ loads' = [loads EXCEPT !.computed = 0, !.returned = {}]
    /\ UNCHANGED <<clock, limiter, env, login, loginLog, held, gate, promise,
                   verified>>

NextCache ==
    \/ \E e \in CacheEnvs : SetEnv(e)
    \/ LoaderCacheClear
    \/ \E t \in Callers : LoaderEnter(t)
    \/ \E t \in Callers : LoaderReturn(t)

SpecCache == InitCache /\ [][NextCache]_vars

\* ------------------------------------------------------------------------
\* The three entry points of the core, login, require_brain_auth and
\* verify_access_token, called while the environment is changed and the
\* settings cache is cleared, at one moment of time.
\* ------------------------------------------------------------------------

\* what the callers present: nothing, a malformed token, the token they hold
Offered ==
    {MalformedToken} \cup (IF held.issued THEN {held.token} ELSE {})

NextErrors ==
    \/ \E e \in Envs : SetEnv(e)
    \/ CacheClear
    \/ \E pin \in Pins : Login(Observed, pin)
    \/ CreateAccessToken("mrw", None)
    \/ \E credentials \in {None} \cup {Some(t) : t \in Offered} :
           RequireBrainAuth(credentials)
    \/ \E token \in Offered : VerifyAccessToken(token)

SpecErrors == InitGate /\ [][NextErrors]_vars

\* ------------------------------------------------------------------------
\* Properties
\* ------------------------------------------------------------------------

Admitted == {t \in Threads : result[t] = "ok"}
Rejected == {t \in Threads : result[t] = "RateLimitExceeded"}
BurstDone == \A t \in Threads : pc[t] = "idle" /\ result[t] # "none"

\* timestamps of client c that the window ending at time now still holds
Retained(att, c, now) == InWindow(Get(att, c), now - WindowTicks(config))

\* C1: of N concurrent check_and_increment calls of one client inside one
\* window, never more than max_attempts return normally, and when all N >
\* max_attempts calls have ended exactly max_attempts returned normally and
\* N - max_attempts raised RateLimitExceeded.
C1_BurstAdmitsExactlyMax ==
    /\ Cardinality(Admitted) <= config.max_attempts
    /\ (BurstDone /\ NumThreads > config.max_attempts) =>
           /\ Cardinality(Admitted) = config.max_attempts
           /\ Cardinality(Rejected) = NumThreads - config.max_attempts

\* a finished burst with rejections, whose callers read different clocks
C1_Witness ==
    /\ BurstDone
    /\ NumThreads > config.max_attempts
    /\ Rejected # {}
    /\ \E i, j \in 1..Len(Get(attempts, BurstClient)) :
           attempts[BurstClient][i] # attempts[BurstClient][j]

\* C2: in every reachable state each client has at most max_attempts retained
\* timestamps newer than now - window_seconds, and a check_and_increment made
\* when that number is max_attempts is rejected.
C2_WindowNeverOverfull ==
    /\ \A c \in Clients : Len(Retained(attempts, c, clock)) <= config.max_attempts
    /\ (/\ last.op = "check_and_increment"
        /\ Len(Retained(last.before, last.client, clock)) = config.max_attempts)
           => last.raised

\* a client at its limit whose next call was rejected, after older timestamps
\* of it had left the window
C2_Witness ==
    /\ last.op = "check_and_increment"
    /\ last.raised
    /\ Len(Retained(last.before, last.client, clock)) = config.max_attempts
    /\ Min(last.before[last.client]) >= WindowTicks(config)

\* the calls of a complete login, in the order of the handler
LoginOrder == <<"check_and_increment", "get_auth_settings", "_verify_pin",
                "reset", "create_access_token">>

Made(step) == \E i \in 1..Len(login.steps) : login.steps[i] = step

\* C3: a login call checks the rate limit, then verifies the PIN, then resets
\* the limiter and issues the token, and ends in one outcome: 429 right after
\* the rate-limit check (no PIN verification, no token, whatever the PIN),
\* 401 or 503 after it, or 200 with a token after all steps.
C3_LoginOrderAndOutcome ==
    login.op = "login" =>
        /\ login.steps # <<>>
        /\ login.steps = SubSeq(LoginOrder, 1, Len(login.steps))
        /\ login.status \in {200, 401, 429, 503}
        /\ login.status = 200 <=> login.token # NoToken
        /\ login.status = 200 => login.steps = LoginOrder
        /\ login.status = 401 => login.steps = SubSeq(LoginOrder, 1, 3)
        /\ login.status = 429 =>
               /\ login.steps = <<"check_and_increment">>
               /\ ~Made("_verify_pin")
               /\ login.token = NoToken

\* a call with the right PIN, with PIN hash and secret configured, that the
\* limiter rejected
C3_Witness ==
    /\ login.op = "login"
    /\ login.status = 429
    /\ login.pin = TEST_PIN
    /\ Truthy(cache[1].pin_hash)
    /\ Truthy(cache[1].jwt_secret)

\* C4: after max_attempts wrong-PIN logins of a client inside one window its
\* next login is answered 429 rate_limit with retry_after >= 1 in the body
\* and the same value in the Retry-After header; every login calls the
\* limiter once, which records one timestamp when it admits the call.
C4_LockedOutAfterMaxWrong ==
    login.op = "login" =>
        /\ (login.client = Observed /\ login.wrong_run >= config.max_attempts)
               => login.status = 429
        /\ login.status = 429 =>
               /\ login.code = "rate_limit"
               /\ login.retry_after >= 1
               /\ ParseInt(login.header) = login.retry_after
        /\ Cardinality({i \in 1..Len(login.steps) :
                           login.steps[i] = "check_and_increment"}) = 1
        /\ login.consumed = IF login.status = 429 THEN 0 ELSE 1

\* two wrong PINs inside the window, then a login answered 429
C4_Witness ==
    /\ login.op = "login"
    /\ login.client = Observed
    /\ config.max_attempts = 2
    /\ login.wrong_run = 2
    /\ login.status = 429
    /\ login.now > 0

\* C5: a successful login clears the client's counter, and the wrong-PIN
\* login of that client that follows a successful one is answered 401
\* invalid_pin, not 429.
C5_SuccessResetsCounter ==
    login.op = "login" =>
        /\ login.status = 200 => login.client \notin DOMAIN attempts
        /\ (/\ login.client = Observed
            /\ login.prev_status = 200
            /\ login.pin # TEST_PIN)
               => (login.status = 401 /\ login.code = "invalid_pin")

\* max_attempts = 2: a wrong PIN, the right PIN, then a wrong PIN answered 401
C5_Witness ==
    /\ login.op = "login"
    /\ login.client = Observed
    /\ config.max_attempts = 2
    /\ login.prev_status = 200
    /\ login.prev_wrong_run = 1
    /\ login.pin = WRONG_PIN
    /\ login.status = 401

\* C6: a login call that does not end in SUCCESS (429, 401, 503) does not
\* clear the client's counter: the client still has retained timestamps.
C6_ClearedOnlyOnSuccess ==
    (login.op = "login" /\ login.status # 200)
        => Get(attempts, login.client) # <<>>

\* C7: check_and_increment raises RateLimitExceeded exactly when, after
\* pruning, the client already has max_attempts or more timestamps in the
\* window; otherwise the client's list becomes the pruned list with the
\* call's now appended.
C7_RejectIffFullElseAppend ==
    last.op = "check_and_increment" =>
        LET kept == Retained(last.before, last.client, last.now)
        IN  /\ last.raised <=> Len(kept) >= config.max_attempts
            /\ ~last.raised =>
                   /\ last.client \in DOMAIN attempts
                   /\ attempts[last.client] = Append(kept, last.now)

\* an admitted call that pruned an expired timestamp and appended its now
C7_Witness ==
    /\ last.op = "check_and_increment"
    /\ ~last.raised
    /\ Len(Get(last.before, last.client)) = config.max_attempts
    /\ Len(attempts[last.client]) = config.max_attempts

\* C8: a rejecting check_and_increment reports
\* floor(oldest retained timestamp + window_seconds - now) + 1, which is >= 1.
C8_RetryAfterFormula ==
    (last.op = "check_and_increment" /\ last.raised) =>
        LET kept == Retained(last.before, last.client, last.now)
            oldest == Min(kept)
        IN  /\ last.retry_after_seconds =
                   ((oldest + WindowTicks(config) - last.now) \div TicksPerSec) + 1
            /\ last.retry_after_seconds >= 1

\* a rejection with a fractional remaining time and a retry_after above 1
C8_Witness ==
    /\ last.op = "check_and_increment"
    /\ last.raised
    /\ last.retry_after_seconds >= 2
    /\ (Min(Retained(last.before, last.client, last.now))
            + WindowTicks(config) - last.now) % TicksPerSec # 0

\* C9: reset(client_id) removes that client's timestamps and changes no other
\* client; a check_and_increment of the client right after its reset succeeds.
C9_ResetClearsOnlyClient ==
    /\ last.op = "reset" =>
           /\ last.client \notin DOMAIN attempts
           /\ \A x \in Clients \ {last.client} :
                  /\ x \in DOMAIN attempts <=> x \in DOMAIN last.before
                  /\ Get(attempts, x) = Get(last.before, x)
    /\ (last.op = "check_and_increment" /\ prevReset.client = last.client)
           => ~last.raised

\* a client at its limit was reset while the other client had timestamps,
\* and its next call was admitted
C9_Witness ==
    /\ last.op = "check_and_increment"
    /\ prevReset.client = last.client
    /\ prevReset.limited
    /\ ~last.raised
    /\ \E x \in Clients \ {last.client} : Get(attempts, x) # <<>>

\* C10: get_remaining_attempts leaves the rate-limit state as it was: the same
\* tracked clients with the same timestamp sequences.
C10_GetRemainingReadOnly ==
    last.op = "get_remaining_attempts" => attempts = last.before

\* the clients with a most recent attempt, and that attempt older than cutoff
OlderThan(att, cutoff) ==
    {c \in DOMAIN att : att[c] # <<>> /\ Max(att[c]) < cutoff}

\* C11: cleanup_old_entries(max_age_seconds) removes exactly the clients whose
\* most recent attempt is older than now - max_age_seconds, leaves every other
\* client with its timestamps, and returns the number of clients it removed.
C11_CleanupRemovesExactlyStale ==
    last.op = "cleanup_old_entries" =>
        \E stale \in {OlderThan(last.before,
                          last.now - last.max_age_seconds * TicksPerSec)} :
            /\ DOMAIN attempts = DOMAIN last.before \ stale
            /\ \A c \in DOMAIN attempts : attempts[c] = last.before[c]
            /\ last.ret = Cardinality(stale)

\* The token is one the service signed with the secret of the settings st and
\* nobody altered: HS256 header, signature of its claims under the configured
\* secret, and every required claim.
WellSigned(token, st) ==
    /\ Truthy(st.jwt_secret)
    /\ token.alg = "HS256"
    /\ token.signature = HS256(st.jwt_secret[1], token.payload)
    /\ RequiredClaims \subseteq DOMAIN token.payload

\* a well-signed token before its exp, and one at or after its exp
Genuine(token, st, now) ==
    WellSigned(token, st) /\ now < token.payload.exp * TicksPerSec
Lapsed(token, st, now) ==
    WellSigned(token, st) /\ now >= token.payload.exp * TicksPerSec

\* C12: when require_brain_auth gets no bearer token, it fails with 401
\* auth_required and returns no decision if auth_required is true, and returns
\* a decision with authenticated = false and no subject if it is false.
C12_NoTokenFollowsAuthRequired ==
    (gate.op = "require_brain_auth" /\ gate.credentials = None
        /\ gate.settings # <<>>) =>
        IF gate.settings[1].auth_required
        THEN /\ gate.raised = "HTTPException"
             /\ gate.status = 401
             /\ gate.code = "auth_required"
        ELSE /\ gate.raised = ""
             /\ ~gate.result.authenticated
             /\ gate.result.subject = None
             /\ gate.result.payload = None

\* auth_required is on and a call without token was refused
C12_Witness ==
    /\ gate.op = "require_brain_auth"
    /\ gate.credentials = None
    /\ gate.settings # <<>>
    /\ gate.settings[1].auth_required
    /\ gate.code = "auth_required"

\* C13: a token presented to require_brain_auth is verified whatever
\* auth_required says: an expired one ends in 401 token_expired, any other
\* token that is not valid in 401 invalid_token, and the call returns a
\* decision only for a valid token.
C13_PresentedTokenAlwaysVerified ==
    (gate.op = "require_brain_auth" /\ gate.credentials # None
        /\ gate.settings # <<>>) =>
        \E token \in {gate.credentials[1]}, st \in {gate.settings[1]} :
            IF Genuine(token, st, gate.now)
            THEN gate.raised = "" /\ gate.result.authenticated
            ELSE /\ gate.raised = "HTTPException"
                 /\ gate.status = 401
                 /\ gate.code = IF Lapsed(token, st, gate.now)
                                THEN "token_expired" ELSE "invalid_token"

\* auth_required is off, and an expired token and a forged one were refused
C13_Witness ==
    /\ gate.op = "require_brain_auth"
    /\ gate.credentials # None
    /\ gate.settings # <<>>
    /\ ~gate.settings[1].auth_required
    /\ gate.code = "token_expired"
    /\ held.issued
    /\ gate.credentials = Some(held.token)

\* C14: require_brain_auth and optional_brain_auth hand back authenticated =
\* true only for a presented token that is signed under the configured
\* secret, not expired and complete, and then subject is the token's sub; in
\* every other case, a missing secret included, the decision says
\* authenticated = false or the call raises.
C14_FailsClosed ==
    (gate.op \in {"require_brain_auth", "optional_brain_auth"}
        /\ gate.raised = "" /\ gate.result.authenticated) =>
        /\ gate.credentials # None
        /\ gate.settings # <<>>
        /\ Genuine(gate.credentials[1], gate.settings[1], gate.now)
        /\ gate.result.subject = Some(gate.credentials[1].payload.sub)

\* the held token was admitted with its subject by optional_brain_auth under
\* the cached settings, after the secret had left the environment
C14_Witness ==
    /\ gate.op = "optional_brain_auth"
    /\ gate.raised = ""
    /\ gate.result.authenticated
    /\ held.issued
    /\ gate.credentials = Some(held.token)
    /\ gate.result.subject = Some(held.subject)
    /\ env.AUTH_JWT_SECRET = None

\* C15: optional_brain_auth never raises: whatever is presented and whatever
\* the settings, it returns a decision, and the decision of a call in which
\* anything failed says authenticated = false.
C15_OptionalNeverRaises ==
    gate.op = "optional_brain_auth" =>
        /\ gate.raised = ""
        /\ gate.result.authenticated =>
               /\ gate.credentials # None
               /\ gate.settings # <<>>
               /\ Genuine(gate.credentials[1], gate.settings[1], gate.now)

\* C16: with auth_required on, a request without bearer token to POST
\* /v1/brain/chat or POST /v1/brain/chat/stream is answered 401 auth_required
\* and the handler does not run.
C16_ProtectedRoutesRequireToken ==
    (gate.op = "brain_request" /\ gate.credentials = None
        /\ gate.settings # <<>> /\ gate.settings[1].auth_required) =>
        /\ gate.status = 401
        /\ gate.code = "auth_required"
        /\ ~gate.handler_ran

\* C17: verify_access_token of the token create_access_token(subject) made,
\* before the token's expiry, returns a payload with sub = subject and with
\* the jti drawn at issuance.
C17_RoundTrip ==
    (gate.op = "verify_access_token" /\ held.issued
        /\ gate.credentials = Some(held.token)
        /\ gate.now < held.token.payload.exp * TicksPerSec) =>
        /\ gate.raised = ""
        /\ gate.payload # None
        /\ gate.payload[1].sub = held.subject
        /\ gate.payload[1].jti = held.jti

\* a token for a subject other than the default, issued with the lifetime
\* of the settings, was verified at a later moment
C17_Witness ==
    /\ gate.op = "verify_access_token"
    /\ held.issued
    /\ held.subject = "test-user"
    /\ held.ttl_seconds = None
    /\ gate.credentials = Some(held.token)
    /\ gate.now > held.at
    /\ gate.raised = ""
    /\ gate.payload = Some([sub |-> "test-user", iat |-> held.token.payload.iat,
                            exp |-> held.token.payload.exp, jti |-> held.jti])

\* C18: create_access_token takes ttl_seconds = 0 (it raises only for a
\* missing secret, and the token then expires at the moment of issue);
\* verify_access_token of a token that is valid but for its age ends in
\* JWTExpiredError at every time after its expires_at; and a token once found
\* expired is not accepted afterwards.
C18_ExpiredStaysExpired ==
    /\ (gate.op = "create_access_token" /\ gate.raised # "") =>
           (gate.settings # <<>> /\ ~Truthy(gate.settings[1].jwt_secret))
    /\ (held.issued /\ held.ttl_seconds = Some(0)) =>
           /\ held.expires_at = held.at
           /\ held.token.payload.exp = IntTrunc(held.at, TicksPerSec)
    /\ (gate.op = "verify_access_token" /\ held.issued
          /\ gate.credentials = Some(held.token)) =>
           /\ gate.now > held.expires_at => gate.raised = "JWTExpiredError"
           /\ held.expired => gate.raised # ""
    /\ (gate.op = "verify_access_token" /\ gate.settings # <<>>
          /\ Lapsed(gate.credentials[1], gate.settings[1], gate.now)) =>
           gate.raised = "JWTExpiredError"

\* a token made with ttl_seconds = 0 was found expired, and found expired
\* again at a later time
C18_Witness ==
    /\ held.issued
    /\ held.ttl_seconds = Some(0)
    /\ held.expired
    /\ gate.op = "verify_access_token"
    /\ gate.credentials = Some(held.token)
    /\ gate.now > held.expires_at + 1
    /\ gate.raised = "JWTExpiredError"

\* C19: verify_access_token of a token whose signature segment or whose
\* claims segment was altered ends in JWTInvalidError, never in
\* JWTExpiredError, also when the token it was made from has expired.
C19_TamperedIsInvalid ==
    (gate.op = "verify_access_token" /\ held.issued
        /\ gate.credentials \in {Some(TamperSignature(held.token)),
                                  Some(TamperClaims(held.token))}) =>
        gate.raised = "JWTInvalidError"

\* the signature of a token past its expiry was altered, and the altered
\* token was found invalid
C19_Witness ==
    /\ gate.op = "verify_access_token"
    /\ held.issued
    /\ gate.credentials = Some(TamperSignature(held.token))
    /\ gate.now > held.expires_at
    /\ gate.raised = "JWTInvalidError"

\* C20: there is no revocation: while the settings stay as they were, a token
\* from a login is accepted by verify_access_token at every time before its
\* expires_at, whatever logins, rate-limit rejections, resets and evictions
\* came in between.
C20_ValidUntilExpiresAt ==
    (gate.op = "verify_access_token" /\ held.issued
        /\ gate.credentials = Some(held.token)
        /\ gate.settings = <<held.settings>>
        /\ gate.now < held.expires_at) =>
        gate.raised = ""

\* what the claim asks of an AuthSettings value
WellFormed(st) ==
    /\ st.token_ttl_seconds > 0
    /\ st.auth_required =>
           /\ st.jwt_secret # None
           /\ Len(st.jwt_secret[1]) >= 32
           /\ st.pin_hash # None
           /\ st.pin_hash[1] # ""
           /\ SubSeq(st.pin_hash[1], 1, 4) \in {"$2a$", "$2b$", "$2y$"}

\* the settings an environment stands for, with lifetime 0 for a lifetime
\* that is not written as an integer
Described(e) ==
    [auth_required |-> e.AUTH_REQUIRED = Some("true"),
     jwt_secret |-> e.AUTH_JWT_SECRET,
     pin_hash |-> e.AUTH_PIN_HASH,
     token_ttl_seconds |->
         CASE e.AUTH_TOKEN_TTL_SECONDS = None -> 43200
           [] e.AUTH_TOKEN_TTL_SECONDS = Some("1") -> 1
           [] OTHER -> 0]

\* C21: every AuthSettings that get_auth_settings returns or keeps in its
\* cache has token_ttl_seconds > 0 and, when auth_required, a secret of at
\* least 32 characters and a non-empty PIN hash with a bcrypt prefix; and a
\* call that loads from an environment that stands for other settings ends in
\* ValueError and returns none.
C21_SettingsWellFormed ==
    /\ cache # <<>> => WellFormed(cache[1])
    /\ (loads.last.op = "get_auth_settings" /\ ~loads.last.raised) =>
           WellFormed(loads.last.settings)
    /\ (loads.last.op = "get_auth_settings" /\ ~loads.last.hit) =>
           IF WellFormed(Described(loads.last.env))
           THEN /\ ~loads.last.raised
                /\ loads.last.settings = Described(loads.last.env)
           ELSE loads.last.raised

\* a call that loaded from an environment with AUTH_REQUIRED=true, a bcrypt
\* PIN hash and a secret of fewer than 32 characters ended in ValueError
C21_Witness ==
    /\ loads.last.op = "get_auth_settings"
    /\ ~loads.last.hit
    /\ loads.last.raised
    /\ loads.last.env.AUTH_REQUIRED = Some("true")
    /\ loads.last.env.AUTH_JWT_SECRET = Some(SHORT_SECRET)
    /\ loads.last.env.AUTH_PIN_HASH = Some(TEST_PIN_HASH)
    /\ loads.last.env.AUTH_TOKEN_TTL_SECONDS = None

\* C22: between two calls of cache_clear() the body of get_auth_settings
\* builds settings from the environment at most once, also when threads make
\* the first call together; the calls made in between all return one value,
\* whatever the environment has become; and a call made after cache_clear()
\* returns a value built after it.
C22_ComputedOncePerReset ==
    /\ loads.computed <= 1
    /\ Cardinality(loads.returned) <= 1
    /\ loads.returned # {} => loads.computed = 1

\* C23: a call of login ends in 200 or in one of the rejections 401
\* invalid_pin, 429 rate_limit and 503; a call of require_brain_auth returns
\* a decision or ends in 401 auth_required, token_expired or invalid_token; a
\* call of verify_access_token returns a payload or raises JWTExpiredError or
\* JWTInvalidError.  No other exception, such as the ValueError of
\* get_auth_settings, leaves any of them.
C23_ClosedErrorTaxonomy ==
    /\ login.op = "login" =>
           \/ login.status = 200 /\ login.code = ""
           \/ login.status = 401 /\ login.code = "invalid_pin"
           \/ login.status = 429 /\ login.code = "rate_limit"
           \/ login.status = 503
                  /\ login.code \in {"auth_not_configured", "token_error"}
    /\ gate.op = "require_brain_auth" =>
           \/ gate.raised = ""
           \/ /\ gate.raised = "HTTPException"
              /\ gate.status = 401
              /\ gate.code \in {"auth_required", "token_expired",
                                "invalid_token"}
    /\ gate.op = "verify_access_token" =>
           gate.raised \in {"", "JWTExpiredError", "JWTInvalidError"}

\* C24 as stated: with no PIN hash configured every login call is answered
\* 503 auth_not_configured, with no PIN verification and no token.
C24_Unconfigured503 ==
    (login.op = "login" /\ cache # <<>> /\ ~Truthy(cache[1].pin_hash)) =>
        /\ login.status = 503
        /\ login.code = "auth_not_configured"
        /\ ~Made("_verify_pin")
        /\ login.token = NoToken

\* C24: with no PIN hash configured a login call never verifies a PIN and
\* never issues a token; the call the limiter admits is answered 503
\* auth_not_configured and the call the limiter rejects is answered 429
\* rate_limit, so a run of such calls is answered 503 up to max_attempts
\* times per window.
C24_UnconfiguredNeverVerifies ==
    (login.op = "login" /\ cache # <<>> /\ ~Truthy(cache[1].pin_hash)) =>
        /\ ~Made("_verify_pin")
        /\ ~Made("create_access_token")
        /\ login.token = NoToken
        /\ login.status \in {429, 503}
        /\ login.status = 503 <=> login.consumed = 1
        /\ login.status = 503 => login.code = "auth_not_configured"
        /\ login.status = 429 => login.code = "rate_limit"

\* no PIN hash: a login answered 503 right after one answered 503
C24_Witness ==
    /\ login.op = "login"
    /\ login.client = Observed
    /\ cache # <<>>
    /\ ~Truthy(cache[1].pin_hash)
    /\ login.prev_status = 503
    /\ login.status = 503
    /\ login.code = "auth_not_configured"

\* the timestamps of s that are not older than window_start
NotOlder(s, window_start) == SelectSeq(s, LAMBDA ts : ts >= window_start)

\* C25: check_and_increment and get_remaining_attempts discard exactly the
\* timestamps older than now - window_seconds: the list check_and_increment
\* leaves holds every earlier timestamp t >= now - window_seconds (one
\* exactly window_seconds old included), the call is rejected exactly when
\* max_attempts of them exist, and get_remaining_attempts counts them all.
C25_DropsExactlyOlder ==
    LET window_start == last.now - WindowTicks(config)
        counted == NotOlder(Get(last.before, last.client), window_start)
    IN  /\ last.op = "check_and_increment" =>
               /\ last.raised <=> Len(counted) >= config.max_attempts
               /\ Get(attempts, last.client) =
                      IF last.raised THEN counted
                      ELSE Append(counted, last.now)
        /\ last.op = "get_remaining_attempts" =>
               last.ret = IF config.max_attempts > Len(counted)
                          THEN config.max_attempts - Len(counted) ELSE 0

\* s[1] <= s[2] <= ... <= s[Len(s)]
NonDecreasing(s) == \A i \in 1..(Len(s) - 1) : s[i] <= s[i + 1]

\* C26: the retained timestamps of every client are in non-decreasing
\* order in every reachable state, also when concurrent check_and_increment
\* calls for one client have read the clock before they acquired the lock.
C26_TimestampsOrdered ==
    \A c \in DOMAIN attempts : NonDecreasing(attempts[c])

\* C27: the PIN verifications made for a client since its last successful
\* login that fall inside one sliding window of window_seconds (the times
\* later than now - window_seconds, up to now) never number more than
\* max_attempts.
C27_VerificationsBounded ==
    Len(verified) <= config.max_attempts

\* the times a call made after the call last can carry
LaterReads == last.now..(MaxClock + MaxWindowSeconds * TicksPerSec)

\* C28: a rejected check_and_increment records nothing: the client's list
\* becomes its in-window part with nothing added, the lists of the other
\* clients stay as they were, and every later check_and_increment of the
\* client ends as it would have ended without the rejected call, with the
\* same retry_after_seconds, so the rejected call postpones nothing.
C28_RejectionRecordsNothing ==
    (last.op = "check_and_increment" /\ last.raised) =>
        /\ Get(attempts, last.client) =
               InWindow(Get(last.before, last.client),
                        last.now - WindowTicks(config))
        /\ \A c \in Clients \ {last.client} :
               /\ Get(attempts, c) = Get(last.before, c)
               /\ c \in DOMAIN attempts <=> c \in DOMAIN last.before
        /\ \A now \in LaterReads :
               LET with == check_and_increment(attempts, config,
                                               last.client, now)
                   without == check_and_increment(last.before, config,
                                                  last.client, now)
               IN  /\ with.raised = without.raised
                   /\ with.retry_after_seconds = without.retry_after_seconds
                   /\ Get(with.att, last.client) = Get(without.att, last.client)

\* a call rejected some time after the attempts that fill the window, while
\* the other client has attempts retained
C28_Witness ==
    /\ last.op = "check_and_increment"
    /\ last.raised
    /\ last.client = Observed
    /\ config.max_attempts = 2
    /\ last.now > Min(Get(last.before, Observed))
    /\ last.retry_after_seconds = 1
    /\ \E c \in Clients \ {Observed} : Get(attempts, c) # <<>>

\* C29: when check_and_increment of a client was rejected with the clock
\* value t and retry_after_seconds = r, and no attempt of the client was
\* admitted since, the client's check_and_increment that carries a clock
\* value >= t + r is admitted, whatever rejected calls, resets and cleanups
\* came in between.
C29_AdmittedAfterRetryAfter ==
    (last.op = "check_and_increment" /\ last.client = Observed /\ promise.due)
        => ~last.raised

\* a call admitted at the very time a rejection named, with the attempts
\* that caused the rejection still retained before it
C29_Witness ==
    /\ last.op = "check_and_increment"
    /\ last.client = Observed
    /\ promise.due
    /\ ~last.raised
    /\ last.now = promise.deadline
    /\ config.max_attempts = 2
    /\ Len(Get(last.before, Observed)) = 2

\* C30: cleanup_old_entries(max_age_seconds) with max_age_seconds >=
\* window_seconds removes no timestamp that a window ending at the
\* cleanup's time or later still holds: for every client and every such
\* time, check_and_increment ends as it would have ended without the
\* cleanup (a client at its limit is still rejected, with the same
\* retry_after_seconds) and get_remaining_attempts returns the same value.
C30_CleanupChangesNoOutcome ==
    (/\ last.op = "cleanup_old_entries"
     /\ last.max_age_seconds >= config.window_seconds) =>
        \A c \in Clients, now \in LaterReads :
            LET after == check_and_increment(attempts, config, c, now)
                without == check_and_increment(last.before, config, c, now)
            IN  /\ InWindow(Get(attempts, c), now - WindowTicks(config)) =
                       InWindow(Get(last.before, c), now - WindowTicks(config))
                /\ after.raised = without.raised
                /\ after.retry_after_seconds = without.retry_after_seconds
                /\ Get(after.att, c) = Get(without.att, c)
                /\ get_remaining_attempts(attempts, config, c, now).ret =
                       get_remaining_attempts(last.before, config, c, now).ret

\* a cleanup with max_age_seconds >= window_seconds that removed a client
\* with timestamps while the client Observed was at its limit
C30_Witness ==
    /\ last.op = "cleanup_old_entries"
    /\ last.max_age_seconds >= config.window_seconds
    /\ \E c \in DOMAIN last.before :
           last.before[c] # <<>> /\ c \notin DOMAIN attempts
    /\ check_and_increment(last.before, config, Observed, last.now).raised
    /\ check_and_increment(attempts, config, Observed, last.now).raised

====
